---- MODULE Spec2Model ----
(***************************************************************************)
(* Model of the vehicle linkage engine of tecdoc_export.py (TecdocClient): *)
(* process_vehicle_linkages fills the provisional index vehicle_lookup,    *)
(* enrich_vehicles_with_linkage_targets correlates it with the linkage     *)
(* target detail records and appends the rows to csv_data['vehicles'],     *)
(* get_linkage_targets collects the detail records page by page.           *)
(* The extract_* methods append rows to csv_data['references'],            *)
(* export_vehicles_csv deduplicates the vehicle rows it writes, and the    *)
(* process_* methods unwrap the envelope of a response.                    *)
(* _format_year_month formats a date, main runs the vehicle types one      *)
(* after the other, and _build_category_hierarchy_from_facets follows the  *)
(* parent links of the category nodes.                                     *)
(*                                                                         *)
(* Values.  Free text that the code strips, measures or searches (carDesc, *)
(* modelDesc, description, vehicleModelSeriesName, dates) is a sequence of *)
(* one-character strings.  Text that is only copied, compared or joined is *)
(* a TLA+ string.  A JSON number is an integer; Missing stands for a key   *)
(* that is absent from the JSON object (dict.get then yields '').  Ids are *)
(* integers, 0 being the falsy id.                                         *)
(***************************************************************************)
EXTENDS Integers, Sequences, FiniteSets, TLC

VARIABLES
    csv_vehicles,              \* self.csv_data['vehicles']
    vehicle_lookup,            \* self.vehicle_lookup, an insertion-ordered dict:
                               \*   a sequence of [key, list]
    linkage_targets_response,  \* the detail records the last enrichment call read
    route,                     \* which query supplied them: "ids", "mfr" or "none"
    pre_vehicles,              \* csv_data['vehicles'] when the last enrichment call began
    pre_lookup,                \* vehicle_lookup when the last enrichment call began
    enrich_log,                \* per source record of the last enrichment call, in
                               \*   emission order: the tier that matched and the
                               \*   linkage_target it selected
    server,                    \* the upstream answering get_linkage_targets
    page_result,               \* what the last get_linkage_targets call returned and
                               \*   the page numbers it requested, in order
    references,                \* self.csv_data['references']
    pre_references,            \* csv_data['references'] when the last extraction call
                               \*   began
    ref_call,                  \* the last extraction call: its name and arguments
    exported,                  \* [written, rows]: the rows export_vehicles_csv wrote
    envelope,                  \* a response envelope handed to the process_* methods
    normalized,                \* [done, vehicles, attributes, references]: what each
                               \*   of them made of it
    given_date,                \* a date handed to _format_year_month
    formatted,                 \* [done, once, twice]: what it returned for it, and
                               \*   for what it returned
    pc,                        \* [at, done]: where main stands in its loop over the
                               \*   vehicle types, and how many of them are done
    upstreams,                 \* [ids, mfr]: the upstreams that answered the two
                               \*   getLinkageTargets queries of the last enrichment
                               \*   call
    facets,                    \* the 'counts' of an assemblyGroupFacets
    hierarchy                  \* the loop of _build_category_hierarchy_from_facets:
                               \*   [at, current_id, node_ids]

vars == <<csv_vehicles, vehicle_lookup, linkage_targets_response, route,
          pre_vehicles, pre_lookup, enrich_log, server, page_result,
          references, pre_references, ref_call,
          exported, envelope, normalized,
          given_date, formatted, pc, upstreams, facets, hierarchy>>

enrich_vars == <<csv_vehicles, vehicle_lookup, linkage_targets_response, route,
                 pre_vehicles, pre_lookup, enrich_log>>

page_vars == <<server, page_result>>

refs_vars == <<references, pre_references, ref_call>>

export_vars == <<exported>>

envelope_vars == <<envelope, normalized>>

format_vars == <<given_date, formatted>>

main_vars == <<pc, upstreams>>

category_vars == <<facets, hierarchy>>

-----------------------------------------------------------------------------
(* Bounds of the model *)

MaxVehicles == 2    \* vehicles handed to process_vehicle_linkages in one run
MaxBatch == 1       \* vehicles in one process_vehicle_linkages call
MaxDetails == 2     \* detail records in one getLinkageTargets answer
MaxPages == 3       \* pages the upstream holds for one query
MaxPerPage == 2     \* records on one page
MaxTotal == 4       \* the total the upstream declares

-----------------------------------------------------------------------------
(* Python values *)

Missing == 0 - 1

\* bool(v) of a JSON number or of a missing key
Truthy(v) == v # Missing /\ v # 0

\* str(v), f"{v}": the decimal digits of a number, '' for the default of a missing key
PyStr(v) == IF v = Missing THEN "" ELSE ToString(v)

IsSpace(c) == c = " "

RECURSIVE LStrip(_)
LStrip(s) == IF s # <<>> /\ IsSpace(Head(s)) THEN LStrip(Tail(s)) ELSE s

RECURSIVE RStrip(_)
RStrip(s) ==
    IF s # <<>> /\ IsSpace(s[Len(s)]) THEN RStrip(SubSeq(s, 1, Len(s) - 1)) ELSE s

\* str.strip()
Strip(s) == RStrip(LStrip(s))

\* a in b, for two strings
IsIn(a, b) == \E i \in 0..(Len(b) - Len(a)) : SubSeq(b, i + 1, i + Len(a)) = a

\* str.isdigit()
IsDigit(s) ==
    /\ s # <<>>
    /\ \A i \in 1..Len(s) : s[i] \in {"0", "1", "2", "3", "4", "5", "6", "7", "8", "9"}

\* '|'.join(parts)
RECURSIVE Join(_)
Join(parts) ==
    IF parts = <<>> THEN ""
    ELSE IF Len(parts) = 1 THEN parts[1]
    ELSE parts[1] \o "|" \o Join(Tail(parts))

RECURSIVE SelectSeq2(_, _)
\* [f(x) for x in s if x is kept]: s is a sequence of [keep, value]
SelectSeq2(s, acc) ==
    IF s = <<>> THEN acc
    ELSE SelectSeq2(Tail(s), IF Head(s).keep THEN Append(acc, Head(s).value) ELSE acc)

-----------------------------------------------------------------------------
(* _format_year_month *)

\* FormatYearMonth that leaves a bare year as it is
FormatYearMonth_BareYear(date_value) ==
    IF date_value = <<>> THEN <<>>
    ELSE IF Len(date_value) = 7 /\ \E i \in 1..Len(date_value) : date_value[i] = "-"
        THEN date_value
    ELSE IF Len(date_value) = 6 /\ IsDigit(date_value)
        THEN SubSeq(date_value, 1, 4) \o <<"-">> \o SubSeq(date_value, 5, 6)
    ELSE date_value

\* lines 1528-1553, on str(date_value), '' for a date_value that is falsy
FormatYearMonth(date_value) ==
    IF date_value = <<>> THEN <<>>
    ELSE IF Len(date_value) = 7 /\ \E i \in 1..Len(date_value) : date_value[i] = "-"
        THEN date_value
    ELSE IF Len(date_value) = 6 /\ IsDigit(date_value)
        THEN SubSeq(date_value, 1, 4) \o <<"-">> \o SubSeq(date_value, 5, 6)
    ELSE IF Len(date_value) = 4 /\ IsDigit(date_value)
        THEN date_value \o <<"-", "0", "1">>
    ELSE date_value

-----------------------------------------------------------------------------
(* The upstream data the run can receive *)

ArticleIds == {11}

Panda12 == <<"P", "a", "n", "d", "a", " ", "1", ".", "2">>
Panda12Sp == Panda12 \o <<" ">>
Panda128V == Panda12 \o <<" ", "8", "V">>
OneTwo == <<"1", ".", "2">>
Tipo == <<"T", "i", "p", "o">>
Panda == <<"P", "a", "n", "d", "a">>

\* linkedVehicles entries of getArticleLinkedAllLinkingTargetsByIds3, each with the
\* linkingTargetId of the item that holds it
VehiclePool == {
    \* its linkingTargetId is a catalog id, its power a range
    [linkingTargetId |-> 103, carId |-> 0, manuId |-> 7, manuDesc |-> "FIAT",
     modelDesc |-> Panda, carDesc |-> Panda12, cylinderCapacity |-> 1242,
     powerHpFrom |-> 60, powerHpTo |-> 69, constructionType |-> "Van",
     yearOfConstructionFrom |-> <<"2", "0", "0", "3", "0", "9">>,
     yearOfConstructionTo |-> <<>>],
    \* a locally assigned id, the description carries a trailing blank
    [linkingTargetId |-> 900, carId |-> 0, manuId |-> 7, manuDesc |-> "FIAT",
     modelDesc |-> Panda, carDesc |-> Panda12Sp, cylinderCapacity |-> 1242,
     powerHpFrom |-> 69, powerHpTo |-> Missing, constructionType |-> "Van",
     yearOfConstructionFrom |-> <<"2", "0", "0", "3">>,
     yearOfConstructionTo |-> <<"2", "0", "1", "2", "-", "0", "7">>],
    \* a short type name, keyed by carId
    [linkingTargetId |-> 0, carId |-> 901, manuId |-> 7, manuDesc |-> "FIAT",
     modelDesc |-> Panda, carDesc |-> OneTwo, cylinderCapacity |-> 1242,
     powerHpFrom |-> 69, powerHpTo |-> 69, constructionType |-> "",
     yearOfConstructionFrom |-> <<>>, yearOfConstructionTo |-> <<>>],
    \* no manufacturer id
    [linkingTargetId |-> 902, carId |-> 0, manuId |-> 0, manuDesc |-> "",
     modelDesc |-> Panda, carDesc |-> Panda12, cylinderCapacity |-> Missing,
     powerHpFrom |-> Missing, powerHpTo |-> Missing, constructionType |-> "Bus",
     yearOfConstructionFrom |-> <<>>, yearOfConstructionTo |-> <<>>],
    \* no lookup key at all
    [linkingTargetId |-> 0, carId |-> 0, manuId |-> 7, manuDesc |-> "FIAT",
     modelDesc |-> Panda, carDesc |-> Panda12, cylinderCapacity |-> 1242,
     powerHpFrom |-> 69, powerHpTo |-> 69, constructionType |-> "Van",
     yearOfConstructionFrom |-> <<>>, yearOfConstructionTo |-> <<>>] }

NoList == <<>>

\* a key the JSON object does not hold
NoKey == "<absent>"

\* linkageTargets entries of getLinkageTargets.  The catalog issues every entry its
\* own linkageTargetId.
DetailPool == {
    [linkageTargetId |-> 101, mfrId |-> 7, description |-> Panda12,
     vehicleModelSeriesName |-> Panda, horsePowerFrom |-> 69, capacityCC |-> 1242,
     fuelType |-> "Petrol", bodyStyle |-> "Hatchback", driveType |-> "Front",
     kbaNumbers |-> <<4136, 0, 315>>,
     engines |-> <<[kind |-> "dict", code |-> "188A4"], [kind |-> "dict", code |-> ""]>>,
     vehiclesInOperation |-> <<[kind |-> "str", description |-> "", text |-> "RHD"]>>],
    \* same description as the next one, another power rating, nothing to enrich
    \* the body style with
    [linkageTargetId |-> 102, mfrId |-> 7, description |-> Panda128V,
     vehicleModelSeriesName |-> Panda, horsePowerFrom |-> 60, capacityCC |-> 1100,
     fuelType |-> "Diesel", bodyStyle |-> "", driveType |-> "",
     kbaNumbers |-> NoList, engines |-> NoList, vehiclesInOperation |-> NoList],
    [linkageTargetId |-> 103, mfrId |-> 7, description |-> Panda128V,
     vehicleModelSeriesName |-> Panda, horsePowerFrom |-> 69, capacityCC |-> 1242,
     fuelType |-> "LPG", bodyStyle |-> "Box", driveType |-> "Rear",
     kbaNumbers |-> <<0>>,
     engines |-> <<[kind |-> "str", code |-> "169A4"], [kind |-> "other", code |-> ""]>>,
     vehiclesInOperation |->
        <<[kind |-> "dict", description |-> NoKey, text |-> "LHD"],
          [kind |-> "dict", description |-> "", text |-> "x"]>>],
    \* a short generic description, no power rating
    [linkageTargetId |-> 104, mfrId |-> 7, description |-> OneTwo,
     vehicleModelSeriesName |-> <<>>, horsePowerFrom |-> Missing,
     capacityCC |-> Missing,
     fuelType |-> "CNG", bodyStyle |-> "", driveType |-> "All",
     kbaNumbers |-> NoList, engines |-> NoList, vehiclesInOperation |-> NoList],
    \* another description, the specification of the Panda 1.2
    [linkageTargetId |-> 105, mfrId |-> 7, description |-> Tipo,
     vehicleModelSeriesName |-> <<" ">> \o Panda, horsePowerFrom |-> 69,
     capacityCC |-> 1242,
     fuelType |-> "Electric", bodyStyle |-> "Coupe", driveType |-> "",
     kbaNumbers |-> <<77>>, engines |-> NoList, vehiclesInOperation |-> NoList],
    \* another manufacturer's Panda 1.2
    [linkageTargetId |-> 106, mfrId |-> 8, description |-> Panda12,
     vehicleModelSeriesName |-> Panda, horsePowerFrom |-> 69, capacityCC |-> 1242,
     fuelType |-> "Hybrid", bodyStyle |-> "SUV", driveType |-> "Front",
     kbaNumbers |-> NoList, engines |-> NoList, vehiclesInOperation |-> NoList] }

\* the sequences over S of at most n elements
SeqsUpTo(S, n) == UNION {[1..k -> S] : k \in 0..n}

\* the answers of the upstream to a getLinkageTargets query: at most MaxDetails
\* detail records, each linkage target listed once
Answers ==
    {s \in SeqsUpTo(DetailPool, MaxDetails) :
        \A i, j \in 1..Len(s) : s[i] = s[j] => i = j}

-----------------------------------------------------------------------------
(* process_vehicle_linkages *)

\* lines 1615-1623
PowerHp(vehicle) ==
    IF vehicle.powerHpFrom = Missing THEN ""
    ELSE IF Truthy(vehicle.powerHpFrom) /\ Truthy(vehicle.powerHpTo)
            /\ vehicle.powerHpFrom # vehicle.powerHpTo
        THEN PyStr(vehicle.powerHpFrom) \o "-" \o PyStr(vehicle.powerHpTo)
    ELSE IF Truthy(vehicle.powerHpFrom) THEN PyStr(vehicle.powerHpFrom)
    ELSE ""

\* VehicleRow with body_style left empty like the other enrichment fields
VehicleRow_NoFallback(article_id, vehicle) ==
    [article_id |-> article_id,
     vehicle_mfr_name |-> vehicle.manuDesc,
     model_series_name |-> vehicle.modelDesc,
     type_name |-> vehicle.carDesc,
     year_from |-> FormatYearMonth(vehicle.yearOfConstructionFrom),
     year_to |-> FormatYearMonth(vehicle.yearOfConstructionTo),
     engine_cc |-> IF Truthy(vehicle.cylinderCapacity)
                   THEN PyStr(vehicle.cylinderCapacity) ELSE "",
     power_hp |-> PowerHp(vehicle),
     fuel_type |-> "",
     body_style |-> "",
     drive_type |-> "",
     kba_numbers |-> "",
     engine_code |-> "",
     other_restrictions |-> ""]

\* lines 1631-1646
VehicleRow(article_id, vehicle) ==
    [article_id |-> article_id,
     vehicle_mfr_name |-> vehicle.manuDesc,
     model_series_name |-> vehicle.modelDesc,
     type_name |-> vehicle.carDesc,
     year_from |-> FormatYearMonth(vehicle.yearOfConstructionFrom),
     year_to |-> FormatYearMonth(vehicle.yearOfConstructionTo),
     engine_cc |-> IF Truthy(vehicle.cylinderCapacity)
                   THEN PyStr(vehicle.cylinderCapacity) ELSE "",
     power_hp |-> PowerHp(vehicle),
     fuel_type |-> "",
     body_style |-> vehicle.constructionType,
     drive_type |-> "",
     kba_numbers |-> "",
     engine_code |-> "",
     other_restrictions |-> ""]

\* line 1626
LinkingTargetId(vehicle) ==
    IF vehicle.linkingTargetId # 0 THEN vehicle.linkingTargetId ELSE vehicle.carId

VehicleInfo(article_id, vehicle) ==
    [row |-> VehicleRow(article_id, vehicle),
     mfr_id |-> vehicle.manuId,
     mfr_name |-> vehicle.manuDesc,
     construction_type |-> vehicle.constructionType]

HasKey(lookup, key) == \E i \in 1..Len(lookup) : lookup[i].key = key

\* lines 1650-1657: self.vehicle_lookup[key].append(info), a new key going last
LookupAppend(lookup, key, info) ==
    IF HasKey(lookup, key)
    THEN [i \in 1..Len(lookup) |->
            IF lookup[i].key = key
            THEN [lookup[i] EXCEPT !.list = Append(@, info)]
            ELSE lookup[i]]
    ELSE Append(lookup, [key |-> key, list |-> <<info>>])

RECURSIVE StoreVehicles(_, _, _)
\* the loop of lines 1610-1661 over actual_vehicles; st = [lookup, vehicles]
StoreVehicles(article_id, actual_vehicles, st) ==
    IF actual_vehicles = <<>> THEN st
    ELSE LET vehicle == Head(actual_vehicles)
             key == LinkingTargetId(vehicle)
         IN StoreVehicles(article_id, Tail(actual_vehicles),
                IF key # 0
                THEN [st EXCEPT !.lookup =
                        LookupAppend(@, key, VehicleInfo(article_id, vehicle))]
                ELSE [st EXCEPT !.vehicles =
                        Append(@, VehicleRow(article_id, vehicle))])

RECURSIVE CountSources(_)
\* the number of source records the index holds
CountSources(lookup) ==
    IF lookup = <<>> THEN 0 ELSE Len(Head(lookup).list) + CountSources(Tail(lookup))

ProcessVehicleLinkages ==
    \E article_id \in ArticleIds :
    \E actual_vehicles \in SeqsUpTo(VehiclePool, MaxBatch) :
        /\ actual_vehicles # <<>>
        /\ Len(csv_vehicles) + CountSources(vehicle_lookup) + Len(actual_vehicles)
              <= MaxVehicles
        /\ LET st == StoreVehicles(article_id, actual_vehicles,
                        [lookup |-> vehicle_lookup, vehicles |-> csv_vehicles])
           IN /\ vehicle_lookup' = st.lookup
              /\ csv_vehicles' = st.vehicles
        \* the locals of an earlier enrichment call are gone
        /\ linkage_targets_response' = <<>>
        /\ route' = "none"
        /\ pre_vehicles' = <<>>
        /\ pre_lookup' = <<>>
        /\ enrich_log' = <<>>
        /\ UNCHANGED <<page_vars, refs_vars, export_vars, envelope_vars, format_vars, main_vars,
                       category_vars>>

-----------------------------------------------------------------------------
(* enrich_vehicles_with_linkage_targets: the lookups *)

\* lines 1669-1676
MfrIds(lookup) ==
    UNION {{lookup[i].list[j].mfr_id : j \in 1..Len(lookup[i].list)} :
              i \in 1..Len(lookup)} \ {0}

RECURSIVE Flatten(_)
\* the source records in the order the loops of lines 1779-1781 visit them
Flatten(lookup) ==
    IF lookup = <<>> THEN <<>>
    ELSE [j \in 1..Len(Head(lookup).list) |->
            [key |-> Head(lookup).key, info |-> Head(lookup).list[j]]]
         \o Flatten(Tail(lookup))

\* lines 1719-1723 and 1785: linkage_targets_lookup.get(key, {}), a later target
\* replacing an earlier one of the same id; <<>> is the empty dict
linkage_targets_lookup(targets, key) ==
    LET hits == {i \in 1..Len(targets) :
                    targets[i].linkageTargetId # 0 /\ targets[i].linkageTargetId = key}
    IN IF hits = {} THEN <<>>
       ELSE <<targets[CHOOSE i \in hits : \A j \in hits : j <= i]>>

\* line 1725: the dict of lines 1719-1723 is empty
NoLookup(targets) == \A i \in 1..Len(targets) : targets[i].linkageTargetId = 0

\* lookup[key].append(target), a new key going last (lines 1766-1768, 1773-1775)
IndexAppend(index, key, target) ==
    IF \E i \in 1..Len(index) : index[i].key = key
    THEN [i \in 1..Len(index) |->
            IF index[i].key = key
            THEN [index[i] EXCEPT !.targets = Append(@, target)]
            ELSE index[i]]
    ELSE Append(index, [key |-> key, targets |-> <<target>>])

\* f"{mfr_id}_{desc}": the two parts; digits hold no underscore, so the key starts
\* with f"{m}_" exactly when its first part is m
DescKey(mfr_id, desc) == <<mfr_id, desc>>

\* f"{mfr_id}_{model_series}_{power_hp}_{capacity}"
SpecKey(mfr_id, model_series, power_hp, capacity) ==
    <<mfr_id, model_series, power_hp, capacity>>

RECURSIVE lookup_by_desc(_, _)
\* lines 1755-1768
lookup_by_desc(targets, index) ==
    IF targets = <<>> THEN index
    ELSE LET target == Head(targets)
             desc == Strip(target.description)
         IN lookup_by_desc(Tail(targets),
                IF desc # <<>> /\ target.mfrId # 0
                THEN IndexAppend(index, DescKey(target.mfrId, desc), target)
                ELSE index)

RECURSIVE lookup_by_specs(_, _)
\* lines 1755-1761, 1770-1775
lookup_by_specs(targets, index) ==
    IF targets = <<>> THEN index
    ELSE LET target == Head(targets)
             model_series == Strip(target.vehicleModelSeriesName)
         IN lookup_by_specs(Tail(targets),
                IF /\ target.mfrId # 0
                   /\ model_series # <<>>
                   /\ Truthy(target.horsePowerFrom)
                   /\ Truthy(target.capacityCC)
                THEN IndexAppend(index,
                        SpecKey(target.mfrId, model_series,
                                PyStr(target.horsePowerFrom), PyStr(target.capacityCC)),
                        target)
                ELSE index)

\* IndexFirst taking the last target of the entry
IndexFirst_Last(index, key) ==
    LET hits == {i \in 1..Len(index) : index[i].key = key}
    IN IF hits = {} THEN <<>>
       ELSE LET targets == index[CHOOSE i \in hits : TRUE].targets
            IN <<targets[Len(targets)]>>

\* index[key][0] when the key is present, else <<>>
IndexFirst(index, key) ==
    LET hits == {i \in 1..Len(index) : index[i].key = key}
    IN IF hits = {} THEN <<>> ELSE <<index[CHOOSE i \in hits : TRUE].targets[1]>>

-----------------------------------------------------------------------------
(* get_linkage_targets *)

max_pages == 500

\* make_request for one page of the upstream: [ok, linkageTargets]; ok = FALSE is the
\* {} make_request returns for a failed request.  Past the pages it lists the
\* upstream answers every page with srv.rest new records: none, an empty page, for
\* an upstream that ends.
Fetch(srv, page) ==
    IF page <= Len(srv.pages) THEN srv.pages[page]
    ELSE [ok |-> TRUE, linkageTargets |-> [j \in 1..srv.rest |-> <<page, j>>]]

\* PageStep going on until a page is empty or fails, whatever the total
PageStep_IgnoresTotal(srv, st) ==
    IF st.page <= max_pages
    THEN LET page_response == Fetch(srv, st.page)
             page_targets == page_response.linkageTargets
             asked == Append(st.requested, st.page)
         IN IF page_response.ok /\ Len(page_targets) # 0
            THEN [all_targets |-> st.all_targets \o page_targets,
                  returned |-> st.returned + Len(page_targets),
                  page |-> st.page + 1, requested |-> asked, running |-> TRUE]
            ELSE [st EXCEPT !.requested = asked, !.running = FALSE]
    ELSE [st EXCEPT !.running = FALSE]

\* PageStep going on to the next page after an empty one
PageStep_SkipsEmpty(srv, st) ==
    IF st.returned < srv.total /\ st.page <= max_pages
    THEN LET page_response == Fetch(srv, st.page)
             page_targets == page_response.linkageTargets
             asked == Append(st.requested, st.page)
         IN IF page_response.ok
            THEN [all_targets |-> st.all_targets \o page_targets,
                  returned |-> st.returned + Len(page_targets),
                  page |-> st.page + 1, requested |-> asked, running |-> TRUE]
            ELSE [st EXCEPT !.requested = asked, !.running = FALSE]
    ELSE [st EXCEPT !.running = FALSE]

\* PageStep going on to the next page after a failed one
PageStep_SkipsFailed(srv, st) ==
    IF st.returned < srv.total /\ st.page <= max_pages
    THEN LET page_response == Fetch(srv, st.page)
             page_targets == page_response.linkageTargets
             asked == Append(st.requested, st.page)
         IN IF page_response.ok /\ Len(page_targets) = 0
            THEN [st EXCEPT !.requested = asked, !.running = FALSE]
            ELSE [all_targets |-> st.all_targets \o page_targets,
                  returned |-> st.returned + Len(page_targets),
                  page |-> st.page + 1, requested |-> asked, running |-> TRUE]
    ELSE [st EXCEPT !.running = FALSE]

\* PageStep leaving the loop one page before max_pages
PageStep_OneShort(srv, st) ==
    IF st.returned < srv.total /\ st.page < max_pages
    THEN LET page_response == Fetch(srv, st.page)
             page_targets == page_response.linkageTargets
             asked == Append(st.requested, st.page)
         IN IF page_response.ok /\ Len(page_targets) # 0
            THEN [all_targets |-> st.all_targets \o page_targets,
                  returned |-> st.returned + Len(page_targets),
                  page |-> st.page + 1, requested |-> asked, running |-> TRUE]
            ELSE [st EXCEPT !.requested = asked, !.running = FALSE]
    ELSE [st EXCEPT !.running = FALSE]

\* PageStep putting the records of a page before those it holds
PageStep_Prepends(srv, st) ==
    IF st.returned < srv.total /\ st.page <= max_pages
    THEN LET page_response == Fetch(srv, st.page)
             page_targets == page_response.linkageTargets
             asked == Append(st.requested, st.page)
         IN IF page_response.ok /\ Len(page_targets) # 0
            THEN [all_targets |-> page_targets \o st.all_targets,
                  returned |-> st.returned + Len(page_targets),
                  page |-> st.page + 1, requested |-> asked, running |-> TRUE]
            ELSE [st EXCEPT !.requested = asked, !.running = FALSE]
    ELSE [st EXCEPT !.running = FALSE]

\* one pass of the while loop of lines 412-427 from the loop state st =
\* [all_targets, returned, page, requested, running]: the test of line 412, the
\* request, and the break on an empty page (lines 416-418) or on a failed one
\* (lines 425-427); running = FALSE once the loop is left
PageStep(srv, st) ==
    IF st.returned < srv.total /\ st.page <= max_pages
    THEN LET page_response == Fetch(srv, st.page)
             page_targets == page_response.linkageTargets
             asked == Append(st.requested, st.page)
         IN IF page_response.ok /\ Len(page_targets) # 0
            THEN [all_targets |-> st.all_targets \o page_targets,
                  returned |-> st.returned + Len(page_targets),
                  page |-> st.page + 1, requested |-> asked, running |-> TRUE]
            ELSE [st EXCEPT !.requested = asked, !.running = FALSE]
    ELSE [st EXCEPT !.running = FALSE]

\* the passes evaluated in one stretch
Stretch == 25

RECURSIVE Passes(_, _, _)
\* at most n passes of the loop, stopping when it is left
Passes(srv, st, n) ==
    IF n = 0 \/ ~ st.running THEN st ELSE Passes(srv, PageStep(srv, st), n - 1)

RECURSIVE Stretches(_, _, _)
\* at most m stretches of passes
Stretches(srv, st, m) ==
    IF m = 0 \/ ~ st.running THEN st
    ELSE Stretches(srv, Passes(srv, st, Stretch), m - 1)

\* the while loop of lines 412-427, run to its end: it is left after at most
\* max_pages passes, page being raised on every pass that stays; yields
\* [linkageTargets, requested]
PageLoop(srv, all_targets, returned, page, requested) ==
    LET st == Stretches(srv, [all_targets |-> all_targets, returned |-> returned,
                              page |-> page, requested |-> requested,
                              running |-> TRUE],
                        (max_pages \div Stretch) + 1)
    IN [linkageTargets |-> st.all_targets, requested |-> st.requested]

\* line 407
MorePages(total, returned) == total > returned /\ returned > 0

\* lines 371-431; srv = [total, pages, rest], total = Missing when the first answer holds
\* no 'total'.  Yields the response and the page numbers requested, in order.
GetLinkageTargets(srv) ==
    LET response == Fetch(srv, 1)
        returned == Len(response.linkageTargets)
    IN IF response.ok /\ srv.total # Missing /\ MorePages(srv.total, returned)
       THEN LET got == PageLoop(srv, response.linkageTargets, returned, 2, <<1>>)
            IN [ok |-> TRUE, linkageTargets |-> got.linkageTargets,
                requested |-> got.requested]
       ELSE [ok |-> response.ok, linkageTargets |-> response.linkageTargets,
             requested |-> <<1>>]

-----------------------------------------------------------------------------
(* enrich_vehicles_with_linkage_targets: the matching chain *)

\* PartialMatch without the power check
PartialMatch_NoPower(type_name, power_hp, target) ==
    LET target_desc == target.description
    IN /\ (IsIn(type_name, target_desc) \/ IsIn(target_desc, type_name))
       /\ Len(type_name) > 5

\* lines 1807-1810, for the first target of one lookup_by_desc entry
PartialMatch(type_name, power_hp, target) ==
    LET target_desc == target.description
        target_power == PyStr(target.horsePowerFrom)
    IN /\ (IsIn(type_name, target_desc) \/ IsIn(target_desc, type_name))
       /\ Len(type_name) > 5
       /\ (power_hp = target_power \/ target_power = "")

\* lines 1803-1812: the first entry, in dict order, of the manufacturer whose first
\* target passes
ScanDesc(by_desc, mfr_id, type_name, power_hp) ==
    LET hits == {i \in 1..Len(by_desc) :
                    /\ by_desc[i].key[1] = mfr_id
                    /\ PartialMatch(type_name, power_hp, by_desc[i].targets[1])}
    IN IF hits = {} THEN <<>>
       ELSE <<by_desc[CHOOSE i \in hits : \A j \in hits : i <= j].targets[1]>>

\* MatchTarget looking the id up only after the description and the specification
MatchTarget_DirectLast(key, vehicle_info, targets, by_desc, by_specs) ==
    LET direct == linkage_targets_lookup(targets, key)
        mfr_id == vehicle_info.mfr_id
        model_series == Strip(vehicle_info.row.model_series_name)
        type_name == Strip(vehicle_info.row.type_name)
        power_hp == vehicle_info.row.power_hp
        engine_cc == vehicle_info.row.engine_cc
        exact == IndexFirst(by_desc, DescKey(mfr_id, type_name))
        partial == ScanDesc(by_desc, mfr_id, type_name, power_hp)
        specs == IndexFirst(by_specs, SpecKey(mfr_id, model_series, power_hp, engine_cc))
    IN IF mfr_id # 0 /\ type_name # <<>> /\ exact # <<>>
           THEN [step |-> "exact", target |-> exact]
       ELSE IF mfr_id # 0 /\ type_name # <<>> /\ partial # <<>>
           THEN [step |-> "partial", target |-> partial]
       ELSE IF /\ mfr_id # 0 /\ model_series # <<>> /\ power_hp # "" /\ engine_cc # ""
               /\ specs # <<>>
           THEN [step |-> "specs", target |-> specs]
       ELSE IF direct # <<>> THEN [step |-> "direct", target |-> direct]
       ELSE [step |-> "none", target |-> <<>>]

\* MatchTarget trying the specification before the description
MatchTarget_SpecsFirst(key, vehicle_info, targets, by_desc, by_specs) ==
    LET direct == linkage_targets_lookup(targets, key)
        mfr_id == vehicle_info.mfr_id
        model_series == Strip(vehicle_info.row.model_series_name)
        type_name == Strip(vehicle_info.row.type_name)
        power_hp == vehicle_info.row.power_hp
        engine_cc == vehicle_info.row.engine_cc
        exact == IndexFirst(by_desc, DescKey(mfr_id, type_name))
        partial == ScanDesc(by_desc, mfr_id, type_name, power_hp)
        specs == IndexFirst(by_specs, SpecKey(mfr_id, model_series, power_hp, engine_cc))
    IN IF direct # <<>> THEN [step |-> "direct", target |-> direct]
       ELSE IF /\ mfr_id # 0 /\ model_series # <<>> /\ power_hp # "" /\ engine_cc # ""
               /\ specs # <<>>
           THEN [step |-> "specs", target |-> specs]
       ELSE IF mfr_id # 0 /\ type_name # <<>> /\ exact # <<>>
           THEN [step |-> "exact", target |-> exact]
       ELSE IF mfr_id # 0 /\ type_name # <<>> /\ partial # <<>>
           THEN [step |-> "partial", target |-> partial]
       ELSE [step |-> "none", target |-> <<>>]

\* lines 1784-1818 for one vehicle_info: the step that selected the linkage_target
\* and the linkage_target, <<>> being the empty dict
MatchTarget(key, vehicle_info, targets, by_desc, by_specs) ==
    LET direct == linkage_targets_lookup(targets, key)
        mfr_id == vehicle_info.mfr_id
        model_series == Strip(vehicle_info.row.model_series_name)
        type_name == Strip(vehicle_info.row.type_name)
        power_hp == vehicle_info.row.power_hp
        engine_cc == vehicle_info.row.engine_cc
        exact == IndexFirst(by_desc, DescKey(mfr_id, type_name))
        partial == ScanDesc(by_desc, mfr_id, type_name, power_hp)
        specs == IndexFirst(by_specs, SpecKey(mfr_id, model_series, power_hp, engine_cc))
    IN IF direct # <<>> THEN [step |-> "direct", target |-> direct]
       ELSE IF mfr_id # 0 /\ type_name # <<>> /\ exact # <<>>
           THEN [step |-> "exact", target |-> exact]
       ELSE IF mfr_id # 0 /\ type_name # <<>> /\ partial # <<>>
           THEN [step |-> "partial", target |-> partial]
       ELSE IF /\ mfr_id # 0 /\ model_series # <<>> /\ power_hp # "" /\ engine_cc # ""
               /\ specs # <<>>
           THEN [step |-> "specs", target |-> specs]
       ELSE [step |-> "none", target |-> <<>>]

\* lines 1829-1831
KbaNumbers(target) ==
    SelectSeq2([i \in 1..Len(target.kbaNumbers) |->
                  [keep |-> target.kbaNumbers[i] # 0,
                   value |-> PyStr(target.kbaNumbers[i])]], <<>>)

\* lines 1834-1842
EngineCodes(target) ==
    SelectSeq2([i \in 1..Len(target.engines) |->
                  LET engine == target.engines[i]
                  IN [keep |-> \/ engine.kind = "dict" /\ engine.code # ""
                               \/ engine.kind = "str",
                      value |-> engine.code]], <<>>)

\* line 1851: restriction.get('description', restriction.get('text', ''))
RestrictionDesc(restriction) ==
    IF restriction.description # NoKey THEN restriction.description
    ELSE IF restriction.text # NoKey THEN restriction.text
    ELSE ""

\* lines 1845-1853
Restrictions(target) ==
    SelectSeq2([i \in 1..Len(target.vehiclesInOperation) |->
                  LET restriction == target.vehiclesInOperation[i]
                  IN IF restriction.kind = "str"
                     THEN [keep |-> TRUE, value |-> restriction.text]
                     ELSE [keep |-> restriction.kind = "dict"
                                    /\ RestrictionDesc(restriction) # "",
                           value |-> RestrictionDesc(restriction)]], <<>>)

\* a or b, for two strings
OrElse(a, b) == IF a # "" THEN a ELSE b

\* EnrichRow assigning the body style whether or not the target has one
EnrichRow_Overwrite(vehicle_row, linkage_target) ==
    [vehicle_row EXCEPT
        !.fuel_type = OrElse(linkage_target.fuelType, @),
        !.body_style = linkage_target.bodyStyle,
        !.drive_type = OrElse(linkage_target.driveType, @),
        !.kba_numbers = IF KbaNumbers(linkage_target) # <<>>
                        THEN Join(KbaNumbers(linkage_target)) ELSE @,
        !.engine_code = IF EngineCodes(linkage_target) # <<>>
                        THEN Join(EngineCodes(linkage_target)) ELSE @,
        !.other_restrictions = IF Restrictions(linkage_target) # <<>>
                               THEN Join(Restrictions(linkage_target)) ELSE @]

\* lines 1855-1865
EnrichRow(vehicle_row, linkage_target) ==
    [vehicle_row EXCEPT
        !.fuel_type = OrElse(linkage_target.fuelType, @),
        !.body_style = IF linkage_target.bodyStyle # ""
                       THEN linkage_target.bodyStyle ELSE @,
        !.drive_type = OrElse(linkage_target.driveType, @),
        !.kba_numbers = IF KbaNumbers(linkage_target) # <<>>
                        THEN Join(KbaNumbers(linkage_target)) ELSE @,
        !.engine_code = IF EngineCodes(linkage_target) # <<>>
                        THEN Join(EngineCodes(linkage_target)) ELSE @,
        !.other_restrictions = IF Restrictions(linkage_target) # <<>>
                               THEN Join(Restrictions(linkage_target)) ELSE @]

\* lines 1680-1682 and 1728-1730: every vehicle_info['row'] as it is
EmitAsIs(lookup) ==
    [i \in 1..Len(Flatten(lookup)) |->
        [key |-> Flatten(lookup)[i].key, info |-> Flatten(lookup)[i].info,
         step |-> "none", target |-> <<>>, row |-> Flatten(lookup)[i].info.row]]

\* EmitMatched appending a row only when a linkage_target was found
EmitMatched_DropUnmatched(lookup, targets) ==
    LET by_desc == lookup_by_desc(targets, <<>>)
        by_specs == lookup_by_specs(targets, <<>>)
        sources == Flatten(lookup)
        all == [i \in 1..Len(sources) |->
                  LET m == MatchTarget(sources[i].key, sources[i].info, targets,
                                       by_desc, by_specs)
                  IN [key |-> sources[i].key, info |-> sources[i].info,
                      step |-> m.step, target |-> m.target,
                      row |-> IF m.target # <<>>
                              THEN EnrichRow(sources[i].info.row, m.target[1])
                              ELSE sources[i].info.row]]
    IN SelectSeq(all, LAMBDA e : e.target # <<>>)

\* lines 1779-1869: one row per vehicle_info, enriched when a linkage_target was
\* found
EmitMatched(lookup, targets) ==
    LET by_desc == lookup_by_desc(targets, <<>>)
        by_specs == lookup_by_specs(targets, <<>>)
        sources == Flatten(lookup)
    IN [i \in 1..Len(sources) |->
          LET m == MatchTarget(sources[i].key, sources[i].info, targets,
                               by_desc, by_specs)
          IN [key |-> sources[i].key, info |-> sources[i].info,
              step |-> m.step, target |-> m.target,
              row |-> IF m.target # <<>>
                      THEN EnrichRow(sources[i].info.row, m.target[1])
                      ELSE sources[i].info.row]]

\* the rows of a log, in order
Rows(log) == [i \in 1..Len(log) |-> log[i].row]

\* lines 1663-1877.  The detail records come from get_linkage_targets_by_ids when
\* that answers with records (route "ids"), else from get_linkage_targets (route
\* "mfr"), whose upstream holds them on one page here.
EnrichVehiclesWithLinkageTargets ==
    /\ vehicle_lookup # <<>>
    /\ pre_vehicles' = csv_vehicles
    /\ pre_lookup' = vehicle_lookup
    /\ vehicle_lookup' = <<>>
    /\ IF MfrIds(vehicle_lookup) = {}
       THEN /\ enrich_log' = EmitAsIs(vehicle_lookup)
            /\ linkage_targets_response' = <<>>
            /\ route' = "none"
       ELSE \E answered \in {"ids", "mfr"} :
            \E details \in Answers :
               /\ answered = "ids" => details # <<>>
               /\ LET by_ids == IF answered = "ids" THEN details ELSE <<>>
                      by_mfr == IF answered = "mfr" THEN details ELSE <<>>
                      targets ==
                         IF by_ids # <<>> THEN by_ids
                         ELSE GetLinkageTargets(
                                 [total |-> Len(by_mfr),
                                  pages |-> <<[ok |-> TRUE,
                                               linkageTargets |-> by_mfr]>>,
                                  rest |-> 0]
                              ).linkageTargets
                  IN /\ linkage_targets_response' = targets
                     /\ route' = IF by_ids # <<>> THEN "ids" ELSE "mfr"
                     /\ enrich_log' = IF NoLookup(targets)
                                      THEN EmitAsIs(vehicle_lookup)
                                      ELSE EmitMatched(vehicle_lookup, targets)
    /\ csv_vehicles' = csv_vehicles \o Rows(enrich_log')
    /\ UNCHANGED <<page_vars, refs_vars, export_vars, envelope_vars, format_vars, main_vars,
                   category_vars>>

-----------------------------------------------------------------------------
(* The run: main feeds the index one linkage batch at a time and enriches it at *)
(* the end of each vehicle type                                                 *)

\* no extraction call yet
NoRefCall ==
    [op |-> "none", article_id |-> 0, articles |-> <<>>, supplier_id |-> 0,
     article_number |-> "", target_gtin |-> <<>>]

\* no file written
NotExported == [written |-> FALSE, rows |-> <<>>]

\* a JSON list
ListOf(items) == [kind |-> "list", items |-> items]

\* no envelope handed over, none normalized
NoEnvelope == ListOf(<<>>)

NoRecords == [raised |-> FALSE, records |-> <<>>]

NotNormalized ==
    [done |-> FALSE, vehicles |-> NoRecords, attributes |-> NoRecords,
     references |-> NoRecords]

\* no date formatted
NotFormatted == [done |-> FALSE, once |-> <<>>, twice |-> <<>>]

\* an upstream that holds nothing: total 0 and no page
NoServer == [total |-> 0, pages |-> <<>>, rest |-> 0]

\* no getLinkageTargets query made
NoUpstreams == [ids |-> NoServer, mfr |-> NoServer]

\* _build_category_hierarchy_from_facets not called
NoHierarchy == [at |-> "idle", current_id |-> 0, node_ids |-> <<>>]

\* main at the head of its loop over the vehicle types, none done
AtStart == [at |-> "type", done |-> 0]

\* no date, no vehicle type begun, no facets handed over
InitOther ==
    /\ given_date = <<>>
    /\ formatted = NotFormatted
    /\ pc = AtStart
    /\ upstreams = NoUpstreams
    /\ facets = <<>>
    /\ hierarchy = NoHierarchy

\* lines 49-62: the client as __init__ leaves it, no vehicle linkage processed
InitEnrich ==
    /\ csv_vehicles = <<>>
    /\ vehicle_lookup = <<>>
    /\ linkage_targets_response = <<>>
    /\ route = "none"
    /\ pre_vehicles = <<>>
    /\ pre_lookup = <<>>
    /\ enrich_log = <<>>

InitPage ==
    /\ server = [total |-> 0, pages |-> <<>>, rest |-> 0]
    /\ page_result = [ok |-> FALSE, linkageTargets |-> <<>>, requested |-> <<>>]

InitRefs ==
    /\ references = <<>>
    /\ pre_references = <<>>
    /\ ref_call = NoRefCall

Init ==
    /\ InitEnrich
    /\ InitPage
    /\ InitRefs
    /\ exported = NotExported
    /\ envelope = NoEnvelope
    /\ normalized = NotNormalized
    /\ InitOther

Next ==
    \/ ProcessVehicleLinkages
    \/ EnrichVehiclesWithLinkageTargets

Spec == Init /\ [][Next]_vars

-----------------------------------------------------------------------------
(* get_linkage_targets against every upstream of the bounds *)

\* page p of an upstream: n records, or a failed request
Page(p, n) == [ok |-> TRUE, linkageTargets |-> [j \in 1..n |-> <<p, j>>]]

FailedPage == [ok |-> FALSE, linkageTargets |-> <<>>]

PagesOf(sizes) ==
    [p \in 1..Len(sizes) |-> IF sizes[p] = Missing THEN FailedPage
                              ELSE Page(p, sizes[p])]

\* a declared total far above what max_pages pages of the bounds can hold
FarTotal == 200 * max_pages

\* the declared total (Missing: none declared), the pages listed, each a failure or
\* a number of records, and the records on every page after them
Servers ==
    {[total |-> total, pages |-> PagesOf(sizes), rest |-> rest] :
        total \in {Missing, FarTotal} \cup 0..MaxTotal,
        sizes \in UNION {[1..k -> {Missing} \cup 0..MaxPerPage] : k \in 1..MaxPages},
        rest \in {0, 1}}

\* no get_linkage_targets result is waiting for its caller
NoResult == [ok |-> FALSE, linkageTargets |-> <<>>, requested |-> <<>>]

CallGetLinkageTargets ==
    /\ page_result = NoResult
    /\ \E srv \in Servers :
          /\ server' = srv
          /\ page_result' = GetLinkageTargets(srv)
    /\ UNCHANGED <<enrich_vars, refs_vars, export_vars, envelope_vars, format_vars, main_vars,
                   category_vars>>

\* the caller has read the response (lines 1704-1723)
ReadLinkageTargets ==
    /\ page_result # NoResult
    /\ server' = [total |-> 0, pages |-> <<>>, rest |-> 0]
    /\ page_result' = NoResult
    /\ UNCHANGED <<enrich_vars, refs_vars, export_vars, envelope_vars, format_vars, main_vars,
                   category_vars>>

NextPage ==
    \/ CallGetLinkageTargets
    \/ ReadLinkageTargets

SpecPage == Init /\ [][NextPage]_vars

-----------------------------------------------------------------------------
(* main: the loop over the vehicle types (lines 2186-2266).  Each vehicle type  *)
(* is a scope: its linkage batches fill the index, and the enrichment at its    *)
(* end correlates the index with the detail records of two upstreams, the one   *)
(* answering the query by ids and the one answering the query by manufacturer.  *)

MaxTypes == 2        \* vehicle types main goes through
MaxDetailPages == 2  \* pages an upstream of detail records lists

\* the detail record an upstream holds on page p
DetailOfPage(p) == CHOOSE d \in DetailPool : d.linkageTargetId = 104 - p

\* page p of an upstream of detail records: a failed request, no record or one
DetailPages(p) ==
    {FailedPage, [ok |-> TRUE, linkageTargets |-> <<>>],
     [ok |-> TRUE, linkageTargets |-> <<DetailOfPage(p)>>]}

\* the upstreams of detail records: at most MaxDetailPages pages, and a total that
\* is absent or MaxDetailPages. The loop of lines 412-427 stops at the first page
\* that fails or is empty, so an upstream is described up to that page.
DetailServers ==
    {[total |-> total, pages |-> pages, rest |-> 0] :
        total \in {Missing, MaxDetailPages},
        pages \in {q \in UNION {[1..k -> UNION {DetailPages(p) : p \in 1..MaxDetailPages}] :
                                   k \in 1..MaxDetailPages} :
                      /\ \A p \in 1..Len(q) : q[p] \in DetailPages(p)
                      /\ \A p \in 1..(Len(q) - 1) : q[p].linkageTargets # <<>>}}

\* the upstreams of the query by ids: what lies behind a first page that fails or
\* is empty is never looked at
IdsServers ==
    {srv \in DetailServers :
        srv.pages[1].linkageTargets = <<>> => Len(srv.pages) = 1 /\ srv.total = Missing}

\* Enrich leaving the index as it is when no detail record has an id
Enrich_KeepsIndex(lookup, ids_srv, mfr_srv) ==
    IF MfrIds(lookup) = {}
    THEN [vehicle_lookup |-> <<>>, route |-> "none", targets |-> <<>>,
          log |-> EmitAsIs(lookup)]
    ELSE LET by_ids == Fetch(ids_srv, 1).linkageTargets
             targets == IF by_ids # <<>> THEN by_ids
                        ELSE GetLinkageTargets(mfr_srv).linkageTargets
         IN [vehicle_lookup |-> IF NoLookup(targets) THEN lookup ELSE <<>>,
             route |-> IF by_ids # <<>> THEN "ids" ELSE "mfr",
             targets |-> targets,
             log |-> IF NoLookup(targets) THEN EmitAsIs(lookup)
                     ELSE EmitMatched(lookup, targets)]

\* Enrich emitting no row when no detail record has an id
Enrich_EmitsNothing(lookup, ids_srv, mfr_srv) ==
    IF MfrIds(lookup) = {}
    THEN [vehicle_lookup |-> <<>>, route |-> "none", targets |-> <<>>,
          log |-> EmitAsIs(lookup)]
    ELSE LET by_ids == Fetch(ids_srv, 1).linkageTargets
             targets == IF by_ids # <<>> THEN by_ids
                        ELSE GetLinkageTargets(mfr_srv).linkageTargets
         IN [vehicle_lookup |-> <<>>,
             route |-> IF by_ids # <<>> THEN "ids" ELSE "mfr",
             targets |-> targets,
             log |-> IF NoLookup(targets) THEN <<>>
                     ELSE EmitMatched(lookup, targets)]

\* lines 1663-1877 for an index that is not empty: the index the call leaves, the
\* query that supplied the detail records, these records and the rows emitted.
\* get_linkage_targets_by_ids (lines 433-448) is one request, for page 1; a
\* failed request yields {} (line 77), which holds no record.
Enrich(lookup, ids_srv, mfr_srv) ==
    IF MfrIds(lookup) = {}
    THEN [vehicle_lookup |-> <<>>, route |-> "none", targets |-> <<>>,
          log |-> EmitAsIs(lookup)]
    ELSE LET by_ids == Fetch(ids_srv, 1).linkageTargets
             targets == IF by_ids # <<>> THEN by_ids
                        ELSE GetLinkageTargets(mfr_srv).linkageTargets
         IN [vehicle_lookup |-> <<>>,
             route |-> IF by_ids # <<>> THEN "ids" ELSE "mfr",
             targets |-> targets,
             log |-> IF NoLookup(targets) THEN EmitAsIs(lookup)
                     ELSE EmitMatched(lookup, targets)]

\* lines 2186-2201: a vehicle type begins; without linked manufacturers main goes
\* on to the next one at once
BeginVehicleType ==
    /\ pc.at = "type"
    /\ pc.done < MaxTypes
    /\ \E manufacturers \in BOOLEAN :
          pc' = IF manufacturers THEN [pc EXCEPT !.at = "linkages"]
                ELSE [pc EXCEPT !.done = @ + 1]
    \* the locals of the enrichment call of the type before are gone
    /\ upstreams' = NoUpstreams
    /\ linkage_targets_response' = <<>>
    /\ route' = "none"
    /\ pre_vehicles' = <<>>
    /\ pre_lookup' = <<>>
    /\ enrich_log' = <<>>
    /\ UNCHANGED <<csv_vehicles, vehicle_lookup, page_vars, refs_vars, export_vars,
                   envelope_vars, format_vars, category_vars>>

\* lines 2203-2250: a batch of linkages of one of the manufacturers is processed
ProcessBatch ==
    /\ pc.at = "linkages"
    /\ ProcessVehicleLinkages

\* lines 2252-2256: the enrichment at the end of the vehicle type
EnrichVehicleType ==
    /\ pc.at = "linkages"
    /\ vehicle_lookup # <<>>
    /\ \E ids_srv \in IdsServers :
       \* the query by manufacturer has an upstream when it is made
       \E mfr_srv \in IF MfrIds(vehicle_lookup) # {} /\ Fetch(ids_srv, 1).linkageTargets = <<>>
                       THEN DetailServers ELSE {NoServer} :
          LET out == Enrich(vehicle_lookup, ids_srv, mfr_srv)
          IN /\ upstreams' = [ids |-> IF out.route = "none" THEN NoServer ELSE ids_srv,
                              mfr |-> mfr_srv]
             /\ vehicle_lookup' = out.vehicle_lookup
             /\ linkage_targets_response' = out.targets
             /\ route' = out.route
             /\ enrich_log' = out.log
             /\ csv_vehicles' = csv_vehicles \o Rows(out.log)
    /\ pre_vehicles' = csv_vehicles
    /\ pre_lookup' = vehicle_lookup
    /\ pc' = [at |-> "type", done |-> pc.done + 1]
    /\ UNCHANGED <<page_vars, refs_vars, export_vars, envelope_vars, format_vars,
                   category_vars>>

\* lines 2254-2259: no vehicle in the index, the enrichment is skipped
SkipEnrichment ==
    /\ pc.at = "linkages"
    /\ vehicle_lookup = <<>>
    /\ pc' = [at |-> "type", done |-> pc.done + 1]
    /\ UNCHANGED <<upstreams, enrich_vars, page_vars, refs_vars, export_vars,
                   envelope_vars, format_vars, category_vars>>

\* lines 2268-2287: the loops are left and the exports start
StartExports ==
    /\ pc.at = "type"
    /\ pc.done = MaxTypes
    /\ pc' = [pc EXCEPT !.at = "export"]
    /\ UNCHANGED <<upstreams, enrich_vars, page_vars, refs_vars, export_vars,
                   envelope_vars, format_vars, category_vars>>

NextMain ==
    \/ BeginVehicleType
    \/ ProcessBatch
    \/ EnrichVehicleType
    \/ SkipEnrichment
    \/ StartExports

SpecMain == Init /\ [][NextMain]_vars

-----------------------------------------------------------------------------
(* What the claims speak of, stated on the inputs of the last enrichment call *)

\* the last step was an enrichment call
Called == pre_lookup # <<>>

\* the detail records the call correlated against
Details == linkage_targets_response

\* the source records the index held when the call began: every position <<i, j>>
\* of it, and the record there
Positions ==
    UNION {{<<i, j>> : j \in 1..Len(pre_lookup[i].list)} : i \in 1..Len(pre_lookup)}

InfoAt(p) == pre_lookup[p[1]].list[p[2]]

\* the source records in the order the call visits them, and how many they are
Sources == Flatten(pre_lookup)

NSources == Cardinality(Positions)

\* the rows the call appended to csv_data['vehicles']
Emitted == SubSeq(csv_vehicles, Len(pre_vehicles) + 1, Len(csv_vehicles))

\* the fields of a row that a source record owns
Intrinsic(row) ==
    <<row.article_id, row.vehicle_mfr_name, row.model_series_name, row.type_name,
      row.year_from, row.year_to, row.engine_cc, row.power_hp>>

SrcMfr(i) == Sources[i].info.mfr_id
SrcRow(i) == Sources[i].info.row
SrcType(i) == Strip(SrcRow(i).type_name)
SrcSeries(i) == Strip(SrcRow(i).model_series_name)

\* tier 1: the detail records whose linkageTargetId is the source's target key
DirectCandidates(i) ==
    {k \in 1..Len(Details) : Details[k].linkageTargetId = Sources[i].key}

\* the description of detail k overlaps the type name of source i
Overlaps(i, k) ==
    LET type_name == SrcType(i)
        description == Details[k].description
    IN \/ IsIn(type_name, description)
       \/ IsIn(description, type_name)

\* detail k has the power rating of source i, or none to compare
PowerAgrees(i, k) ==
    \/ Details[k].horsePowerFrom = Missing
    \/ PyStr(Details[k].horsePowerFrom) = SrcRow(i).power_hp

\* detail k is the first, in detail order, of its manufacturer and description
HeadsDescription(k) ==
    LET description == Strip(Details[k].description)
    IN \A j \in 1..(k - 1) :
          ~ (/\ Details[j].mfrId = Details[k].mfrId
             /\ Strip(Details[j].description) = description)

\* tier 2, exact: the details of the source's manufacturer whose description is the
\* source's type name
ExactCandidates(i) ==
    LET mfr_id == SrcMfr(i)
        type_name == SrcType(i)
    IN {k \in 1..Len(Details) :
          /\ mfr_id # 0 /\ type_name # <<>>
          /\ Details[k].mfrId = mfr_id
          /\ Strip(Details[k].description) = type_name}

\* tier 2, substring: the details of the source's manufacturer that head their
\* description, overlap a type name of more than 5 characters and agree in power
PartialCandidates(i) ==
    LET mfr_id == SrcMfr(i)
        type_name == SrcType(i)
    IN {k \in 1..Len(Details) :
          /\ mfr_id # 0 /\ Len(type_name) > 5
          /\ Details[k].mfrId = mfr_id
          /\ PowerAgrees(i, k)
          /\ Strip(Details[k].description) # <<>>
          /\ HeadsDescription(k)
          /\ Overlaps(i, k)}

\* source i has all four parts of the specification key
HasSpecs(i) ==
    /\ SrcMfr(i) # 0 /\ SrcSeries(i) # <<>>
    /\ SrcRow(i).power_hp # "" /\ SrcRow(i).engine_cc # ""

\* tier 3: the details whose (mfrId, vehicleModelSeriesName, horsePowerFrom,
\* capacityCC) is the source's (manufacturer id, model series, power, displacement)
SpecCandidates(i) ==
    LET src == Sources[i].info
        series == SrcSeries(i)
    IN IF ~ HasSpecs(i) THEN {}
       ELSE {k \in 1..Len(Details) :
               /\ Details[k].mfrId = src.mfr_id
               /\ PyStr(Details[k].horsePowerFrom) = src.row.power_hp
               /\ PyStr(Details[k].capacityCC) = src.row.engine_cc
               /\ Strip(Details[k].vehicleModelSeriesName) = series}

First(S) == CHOOSE k \in S : \A j \in S : k <= j

\* the detail the description match is to select for source i, <<>> when none
DescriptionCandidate(i) ==
    LET exact == ExactCandidates(i)
        partial == PartialCandidates(i)
    IN IF exact # {} THEN <<Details[First(exact)]>>
       ELSE IF partial # {} THEN <<Details[First(partial)]>>
       ELSE <<>>

\* the emitted row of source i is the source row merged with detail d
EnrichedFrom(i, d) == Emitted[i] = EnrichRow(SrcRow(i), d)

\* the rows and the log of the call are there, one per source record
WellFormed == Called /\ Len(Emitted) = NSources /\ Len(enrich_log) = NSources

-----------------------------------------------------------------------------
(* C1 *)

\* C1: every source record whose target key is the linkageTargetId of a fetched
\* detail record is matched by the direct key step and its emitted row is the source
\* row enriched from that detail record, whatever other candidates the answer holds.
Thm_C1_DirectKeyFirst ==
    Called =>
        /\ WellFormed
        /\ \A i \in 1..NSources : \A k \in DirectCandidates(i) :
              /\ enrich_log[i].step = "direct"
              /\ EnrichedFrom(i, Details[k])

\* a source matched by its key while another detail of its manufacturer matches it
\* by description or by specification and would give another row
Wit_C1_DirectKeyFirst ==
    /\ WellFormed
    /\ \E i \in 1..NSources : \E k \in DirectCandidates(i) :
       \E c \in (ExactCandidates(i) \cup PartialCandidates(i) \cup SpecCandidates(i)) :
          /\ c \notin DirectCandidates(i)
          /\ EnrichedFrom(i, Details[k])
          /\ ~ EnrichedFrom(i, Details[c])

-----------------------------------------------------------------------------
(* C2 *)

\* C2: an enrichment call appends exactly one row per source record the index held:
\* the rows before the call stay, the list grows by the number of source records,
\* and each source record's own fields occur among the new rows as often as among
\* the source records.
Thm_C2_OneRowPerSource ==
    Called =>
        /\ Len(csv_vehicles) = Len(pre_vehicles) + NSources
        /\ SubSeq(csv_vehicles, 1, Len(pre_vehicles)) = pre_vehicles
        /\ \A p \in Positions :
              Cardinality({n \in 1..Len(Emitted) :
                              Intrinsic(Emitted[n]) = Intrinsic(InfoAt(p).row)})
              = Cardinality({q \in Positions :
                              Intrinsic(InfoAt(q).row) = Intrinsic(InfoAt(p).row)})

\* a call over two source records, one matched and one not
Wit_C2_OneRowPerSource ==
    /\ WellFormed
    /\ NSources >= 2
    /\ \E i, j \in 1..NSources :
          enrich_log[i].target # <<>> /\ enrich_log[j].target = <<>>

-----------------------------------------------------------------------------
(* C3 *)

\* no tier has a candidate for source i
NoCandidate(i) ==
    /\ DirectCandidates(i) = {}
    /\ SpecCandidates(i) = {}
    /\ DescriptionCandidate(i) = <<>>

\* C3: a source record for which no tier succeeds is emitted with fuel_type,
\* drive_type, kba_numbers, engine_code and other_restrictions empty and body_style
\* equal to the construction type it was created with.
Thm_C3_UnmatchedPassthrough ==
    Called =>
        /\ WellFormed
        /\ \A i \in 1..NSources :
              NoCandidate(i) =>
                 /\ Emitted[i].fuel_type = ""
                 /\ Emitted[i].drive_type = ""
                 /\ Emitted[i].kba_numbers = ""
                 /\ Emitted[i].engine_code = ""
                 /\ Emitted[i].other_restrictions = ""
                 /\ Emitted[i].body_style = Sources[i].info.construction_type

\* an unmatched source with a construction type, in a call that had detail records
\* of its manufacturer to match against
Wit_C3_UnmatchedPassthrough ==
    /\ WellFormed
    /\ \E i \in 1..NSources :
          /\ NoCandidate(i)
          /\ Sources[i].info.construction_type # ""
          /\ Emitted[i].body_style = Sources[i].info.construction_type
          /\ \E k \in 1..Len(Details) : Details[k].mfrId = SrcMfr(i)

-----------------------------------------------------------------------------
(* C4 *)

\* C4: on a match every enrichable field of the emitted row is the detail's value
\* when that is non-empty and else the value the source row had.
Thm_C4_MergePolicy ==
    Called =>
        /\ WellFormed
        /\ \A i \in 1..NSources :
              enrich_log[i].target # <<>> =>
                 LET d == enrich_log[i].target[1]
                     src == SrcRow(i)
                     out == Emitted[i]
                 IN /\ out.fuel_type = IF d.fuelType # "" THEN d.fuelType ELSE src.fuel_type
                    /\ out.body_style =
                          IF d.bodyStyle # "" THEN d.bodyStyle ELSE src.body_style
                    /\ out.drive_type =
                          IF d.driveType # "" THEN d.driveType ELSE src.drive_type
                    /\ out.kba_numbers =
                          IF Join(KbaNumbers(d)) # "" THEN Join(KbaNumbers(d))
                          ELSE src.kba_numbers
                    /\ out.engine_code =
                          IF Join(EngineCodes(d)) # "" THEN Join(EngineCodes(d))
                          ELSE src.engine_code
                    /\ out.other_restrictions =
                          IF Join(Restrictions(d)) # "" THEN Join(Restrictions(d))
                          ELSE src.other_restrictions
                    /\ Intrinsic(out) = Intrinsic(src)

\* a match whose detail has no body style and a fuel type, on a source that has a
\* body style: the body style is kept, the fuel type taken
Wit_C4_MergePolicy ==
    /\ WellFormed
    /\ \E i \in 1..NSources :
          /\ enrich_log[i].target # <<>>
          /\ enrich_log[i].target[1].bodyStyle = ""
          /\ enrich_log[i].target[1].fuelType # ""
          /\ SrcRow(i).body_style # ""
          /\ Emitted[i].body_style = SrcRow(i).body_style
          /\ Emitted[i].fuel_type = enrich_log[i].target[1].fuelType

-----------------------------------------------------------------------------
(* C5 *)

\* C5: the tiers are tried in the order direct key, description, specification and
\* the first success is used: without a direct key match a description candidate
\* is the detail used, whatever the specification would select, and a record is
\* enriched by the specification step only when there is neither a direct key match
\* nor a description candidate.
Thm_C5_TierOrder ==
    Called =>
        /\ WellFormed
        /\ \A i \in 1..NSources :
              LET described == DescriptionCandidate(i)
              IN /\ (DirectCandidates(i) = {} /\ described # <<>>) =>
                       /\ enrich_log[i].step \in {"exact", "partial"}
                       /\ enrich_log[i].target = described
                       /\ EnrichedFrom(i, described[1])
                 /\ enrich_log[i].step = "specs" =>
                       /\ DirectCandidates(i) = {}
                       /\ described = <<>>
                 /\ enrich_log[i].step \in {"exact", "partial"} =>
                       DirectCandidates(i) = {}

\* a source with a description candidate and a specification candidate that would
\* give another row: the description candidate is used
Wit_C5_TierOrder ==
    /\ WellFormed
    /\ \E i \in 1..NSources :
          /\ DirectCandidates(i) = {}
          /\ DescriptionCandidate(i) # <<>>
          /\ SpecCandidates(i) # {}
          /\ EnrichedFrom(i, DescriptionCandidate(i)[1])
          /\ ~ EnrichedFrom(i, Details[First(SpecCandidates(i))])

-----------------------------------------------------------------------------
(* C6 *)

\* C6: a detail record whose description has 5 or fewer characters is never the one
\* the substring step of the description match selects.
Cex_C6_ShortDescriptionNotSelected ==
    Called =>
        /\ WellFormed
        /\ \A i \in 1..NSources :
              enrich_log[i].step = "partial" =>
                 Len(enrich_log[i].target[1].description) > 5

-----------------------------------------------------------------------------
(* C7 *)

\* the details of the source's manufacturer, descriptions and type name longer than
\* 5 characters, whose description overlaps the type name and whose power agrees
OverlapCandidates(i) ==
    {k \in 1..Len(Details) :
        /\ Details[k].mfrId = SrcMfr(i)
        /\ Len(SrcType(i)) > 5
        /\ Len(Strip(Details[k].description)) > 5
        /\ Overlaps(i, k)
        /\ PowerAgrees(i, k)}

\* C7: when neither the direct key nor the exact (manufacturer id, type name) lookup
\* has an entry, the first detail in detail order of the source's manufacturer whose
\* description overlaps the type name and which passes the power check is selected,
\* so a source with any such detail is matched in tier 2.
Cex_C7_AnyOverlappingDetailMatches ==
    Called =>
        /\ WellFormed
        /\ \A i \in 1..NSources :
              (/\ DirectCandidates(i) = {}
               /\ ExactCandidates(i) = {}
               /\ SrcMfr(i) # 0
               /\ OverlapCandidates(i) # {}) =>
                 /\ enrich_log[i].step = "partial"
                 /\ enrich_log[i].target = <<Details[First(OverlapCandidates(i))]>>

-----------------------------------------------------------------------------
(* C8 *)

\* C8: a detail record the substring step selects has the source's power_hp as its
\* horsePowerFrom or has no horsePowerFrom; a detail of the source's manufacturer
\* whose description overlaps the type name and whose power differs is never the one
\* the substring step enriches the source from.
Thm_C8_PowerCheck ==
    Called =>
        /\ WellFormed
        /\ \A i \in 1..NSources :
              enrich_log[i].step = "partial" =>
                 /\ \/ enrich_log[i].target[1].horsePowerFrom = Missing
                    \/ PyStr(enrich_log[i].target[1].horsePowerFrom) = SrcRow(i).power_hp
                 /\ \A k \in 1..Len(Details) :
                       (/\ Details[k].mfrId = SrcMfr(i)
                        /\ Overlaps(i, k)
                        /\ ~ PowerAgrees(i, k)) =>
                          /\ enrich_log[i].target # <<Details[k]>>
                          /\ ~ EnrichedFrom(i, Details[k])

\* a source enriched through the substring step from a detail of its power, while
\* the answer also holds an overlapping detail of its manufacturer of another power
Wit_C8_PowerCheck ==
    /\ WellFormed
    /\ \E i \in 1..NSources :
          /\ enrich_log[i].step = "partial"
          /\ enrich_log[i].target[1].horsePowerFrom # Missing
          /\ PyStr(enrich_log[i].target[1].horsePowerFrom) = SrcRow(i).power_hp
          /\ EnrichedFrom(i, enrich_log[i].target[1])
          /\ \E k \in 1..Len(Details) :
                /\ Details[k].mfrId = SrcMfr(i)
                /\ Overlaps(i, k)
                /\ ~ PowerAgrees(i, k)

-----------------------------------------------------------------------------
(* C9 *)

-----------------------------------------------------------------------------
(* C10 *)

\* a get_linkage_targets call has returned
PageCalled == page_result.requested # <<>>

Requested == page_result.requested

\* the number of records on page p of the upstream
PageCount(p) == Len(Fetch(server, p).linkageTargets)

RECURSIVE Listed(_)
\* the number of records on the first k pages the upstream lists
Listed(k) == IF k = 0 THEN 0 ELSE PageCount(k) + Listed(k - 1)

\* the number of records on pages 1..k
Accumulated(k) ==
    IF k <= Len(server.pages) THEN Listed(k)
    ELSE Listed(Len(server.pages)) + (k - Len(server.pages)) * server.rest

\* the first answer arrived and declares a total
FirstHasTotal == Fetch(server, 1).ok /\ server.total # Missing

\* C10 as stated: whenever the first page holds fewer records than the declared
\* total, page 2 is requested.
Cex_C10_ContinuesWhenFirstPageShort ==
    PageCalled =>
        ((FirstHasTotal /\ PageCount(1) < server.total) => Len(Requested) >= 2)

\* C10, amended: page 1 is requested first and the requests are pages 1, 2, 3, ...
\* in order; page 2 is requested exactly when the first page holds at least one
\* record and fewer than the declared total; a page after the first is requested
\* only while the records accumulated before it are fewer than total, and the next
\* page is requested after every non-empty page that leaves the count below total;
\* a first page of at least total records is the only request.
Thm_C10_PaginationByTotal ==
    PageCalled =>
        /\ \A n \in 1..Len(Requested) : Requested[n] = n
        /\ Len(Requested) >= 2 <=>
              (FirstHasTotal /\ PageCount(1) > 0 /\ PageCount(1) < server.total)
        /\ \A n \in 2..Len(Requested) : Accumulated(n - 1) < server.total
        /\ \A n \in 2..Len(Requested) :
              (/\ Fetch(server, n).ok
               /\ PageCount(n) > 0
               /\ Accumulated(n) < server.total
               /\ n < max_pages) => Len(Requested) > n
        /\ (FirstHasTotal /\ PageCount(1) >= server.total) => Requested = <<1>>

\* a call that went on to page 2 and stopped there because the count reached the
\* total, although the upstream holds a further page with records
Wit_C10_PaginationByTotal ==
    /\ PageCalled
    /\ Len(Requested) = 2
    /\ Accumulated(1) < server.total
    /\ Accumulated(2) >= server.total
    /\ PageCount(3) > 0

-----------------------------------------------------------------------------
(* C11 *)

\* the records get_linkage_targets returned
Result == page_result.linkageTargets

\* the result is exactly the records of pages 1..k, page after page
HoldsPages(k) ==
    /\ Len(Result) = Accumulated(k)
    /\ \A p \in 1..k : \A j \in 1..PageCount(p) :
          Result[Accumulated(p - 1) + j] = Fetch(server, p).linkageTargets[j]

\* C11: when a requested page after the first answers with zero records, it is the
\* last page requested, the call returns a response and its records are exactly the
\* records of the pages before it.
Thm_C11_StopsOnEmptyPage ==
    PageCalled =>
        \A n \in 2..Len(Requested) :
            (Fetch(server, n).ok /\ PageCount(n) = 0) =>
                /\ Len(Requested) = n
                /\ page_result.ok
                /\ HoldsPages(n - 1)

\* an empty page 2 with the count below total and records on the page after it: the
\* result is the records of page 1
Wit_C11_StopsOnEmptyPage ==
    /\ PageCalled
    /\ Requested = <<1, 2>>
    /\ Fetch(server, 2).ok /\ PageCount(2) = 0
    /\ PageCount(1) < server.total
    /\ PageCount(3) > 0
    /\ Result = Fetch(server, 1).linkageTargets
    /\ Result # <<>>

-----------------------------------------------------------------------------
(* C12 *)

\* C12: when the request of a page after the first fails, it is the last page
\* requested and was requested once, the call returns a response and its records are
\* exactly the records of the pages before the failed one.
Thm_C12_StopsOnFailedPage ==
    PageCalled =>
        \A n \in 2..Len(Requested) :
            ~ Fetch(server, n).ok =>
                /\ Len(Requested) = n
                /\ Cardinality({m \in 1..Len(Requested) : Requested[m] = n}) = 1
                /\ page_result.ok
                /\ HoldsPages(n - 1)

\* page 3 fails with the count below total on an upstream that has records on every
\* later page: the result is the records of pages 1 and 2
Wit_C12_StopsOnFailedPage ==
    /\ PageCalled
    /\ Requested = <<1, 2, 3>>
    /\ ~ Fetch(server, 3).ok
    /\ server.rest = 1
    /\ Accumulated(2) < server.total
    /\ Result = Fetch(server, 1).linkageTargets \o Fetch(server, 2).linkageTargets

-----------------------------------------------------------------------------
(* C13 *)

\* every page up to max_pages answers with one record
OneRecordPerPage ==
    \A p \in 1..max_pages : Fetch(server, p).ok /\ PageCount(p) = 1

\* C13: no call requests more than max_pages pages or a page number above
\* max_pages, and against an upstream with one record on every page and a declared
\* total above max_pages the call requests pages 1..max_pages and returns their
\* max_pages records.
Thm_C13_PageCeiling ==
    PageCalled =>
        /\ Len(Requested) <= max_pages
        /\ \A n \in 1..Len(Requested) : Requested[n] <= max_pages
        /\ (OneRecordPerPage /\ server.total > max_pages) =>
              /\ Len(Requested) = max_pages
              /\ Requested[Len(Requested)] = max_pages
              /\ Len(Result) = max_pages
              /\ HoldsPages(max_pages)

\* the call against the upstream of one record per page that declares FarTotal
Wit_C13_PageCeiling ==
    /\ PageCalled
    /\ OneRecordPerPage
    /\ server.total = FarTotal
    /\ Len(Requested) = max_pages
    /\ Len(Result) = max_pages

-----------------------------------------------------------------------------
(* C28 *)

\* C28: the pages requested are 1, 2, 3, ... in order, each once; the records
\* returned are the records of the requested pages, page after page, each record
\* once and in the order of its page; and a page after the first is requested only
\* while the records of the pages before it are fewer than the declared total.
Thm_C28_PageOrder ==
    PageCalled =>
        /\ Requested = [n \in 1..Len(Requested) |-> n]
        /\ HoldsPages(Len(Requested))
        /\ \A n \in 2..Len(Requested) : Accumulated(n - 1) < server.total

\* three pages that hold records were requested and put together
Wit_C28_PageOrder ==
    /\ PageCalled
    /\ Len(Requested) >= 3
    /\ \A p \in 1..3 : PageCount(p) > 0
    /\ Len(Result) = Accumulated(3)

-----------------------------------------------------------------------------
(* Reference extraction: csv_data['references']                                *)
(*                                                                             *)
(* A reference number is text, a sequence of one-character strings; a          *)
(* manufacturer name and an article number that are only compared are TLA+     *)
(* strings.  An entry of a number list of the JSON is a string, a number or an *)
(* object: [kind, text, value, articleNumber, number, mfrName, brandName], the *)
(* fields of the other kinds being absent.                                     *)

MaxRefs == 2        \* rows of csv_data['references'] below which a call is made
MaxArticles == 2    \* records in one reference_response

\* a key that is absent from a JSON object, for a text value
NoText == <<"<absent>">>

StrEntry(text) ==
    [kind |-> "str", text |-> text, value |-> 0, articleNumber |-> NoText,
     number |-> NoText, mfrName |-> NoKey, brandName |-> NoKey]

IntEntry(value) ==
    [kind |-> "int", text |-> <<>>, value |-> value, articleNumber |-> NoText,
     number |-> NoText, mfrName |-> NoKey, brandName |-> NoKey]

DictEntry(articleNumber, number, mfrName, brandName) ==
    [kind |-> "dict", text |-> <<>>, value |-> 0, articleNumber |-> articleNumber,
     number |-> number, mfrName |-> mfrName, brandName |-> brandName]

DigitChars == <<"0", "1", "2", "3", "4", "5", "6", "7", "8", "9">>

RECURSIVE StrOfInt(_)
\* str(n) of a number n >= 0, as text
StrOfInt(n) ==
    IF n < 10 THEN <<DigitChars[n + 1]>>
    ELSE StrOfInt(n \div 10) \o <<DigitChars[(n % 10) + 1]>>

RECURSIVE LStripZeros(_)
\* str.lstrip('0')
LStripZeros(s) == IF s # <<>> /\ Head(s) = "0" THEN LStripZeros(Tail(s)) ELSE s

\* dict.get(key, default) for a text value
GetText(value, default) == IF value = NoText THEN default ELSE value

\* dict.get(key, default) for a name
GetName(value, default) == IF value = NoKey THEN default ELSE value

\* a row of csv_data['references']
ReferenceRow(article_id, ref_type, number, mfr_name) ==
    [article_id |-> article_id, ref_type |-> ref_type, number |-> number,
     mfr_name |-> mfr_name]

\* lines 783-786 and 807-810: a gtin or a trade number, which is a string or a
\* number: x.strip() or str(x).strip()
NumberText(entry) ==
    IF entry.kind = "str" THEN Strip(entry.text) ELSE Strip(StrOfInt(entry.value))

\* lines 783-788 and 807-812: the (number, mfr_name) a gtin or a trade number gives
PlainNumber(entry) == [number |-> NumberText(entry), mfr_name |-> ""]

\* lines 829-834 (and 853-858, 877-882, 901-906): the (number, mfr_name) an entry of
\* oemNumbers, comparableNumbers, replacesArticles or replacedByArticles gives
ArticleNumber(entry) ==
    IF entry.kind = "dict"
    THEN [number |-> GetText(entry.articleNumber, <<>>),
          mfr_name |-> GetName(entry.mfrName, "")]
    ELSE [number |-> NumberText(entry), mfr_name |-> ""]

\* lines 759-761 and 790: (ref_type, number, mfr_name)
RefKey(ref) == <<ref.ref_type, ref.number, ref.mfr_name>>

\* lines 756-761: the keys of the rows the article already has
ExistingRefs(refs, article_id) ==
    {RefKey(refs[i]) : i \in {j \in 1..Len(refs) : refs[j].article_id = article_id}}

\* AddReference appending whether or not the key is in existing_refs
AddReference_Unchecked(acc, article_id, ref_type, found) ==
    IF found.number # <<>>
    THEN [acc EXCEPT
            !.rows = Append(@, ReferenceRow(article_id, ref_type, found.number,
                                            found.mfr_name)),
            !.existing_refs = @ \cup {<<ref_type, found.number, found.mfr_name>>}]
    ELSE acc

\* lines 788-801 (and 812-825, 836-849, ...): a non-empty number whose key is not in
\* existing_refs is appended and its key added; acc = [rows, existing_refs,
\* ean_added], rows being what the call has appended so far
AddReference(acc, article_id, ref_type, found) ==
    IF found.number # <<>>
       /\ <<ref_type, found.number, found.mfr_name>> \notin acc.existing_refs
    THEN [acc EXCEPT
            !.rows = Append(@, ReferenceRow(article_id, ref_type, found.number,
                                            found.mfr_name)),
            !.existing_refs = @ \cup {<<ref_type, found.number, found.mfr_name>>}]
    ELSE acc

RECURSIVE AddFirstEan(_, _, _)
\* lines 782-803: the gtins in order until one is appended
AddFirstEan(acc, article_id, gtins) ==
    IF gtins = <<>> THEN acc
    ELSE LET added == AddReference(acc, article_id, "EAN", PlainNumber(Head(gtins)))
         IN IF added # acc THEN [added EXCEPT !.ean_added = TRUE]
            ELSE AddFirstEan(acc, article_id, Tail(gtins))

RECURSIVE AddEach(_, _, _, _)
\* the for loops of lines 806-825, 828-849, 852-873, 876-897 and 900-921 over the
\* (number, mfr_name) of the entries
AddEach(acc, article_id, ref_type, found) ==
    IF found = <<>> THEN acc
    ELSE AddEach(AddReference(acc, article_id, ref_type, Head(found)), article_id,
                 ref_type, Tail(found))

PlainNumbers(entries) == [i \in 1..Len(entries) |-> PlainNumber(entries[i])]

ArticleNumbers(entries) == [i \in 1..Len(entries) |-> ArticleNumber(entries[i])]

\* lines 766-779: the record is not skipped
Accepted(article, supplier_id, article_number) ==
    /\ ~ (Truthy(supplier_id) /\ article.dataSupplierId # supplier_id)
    /\ ~ (article_number # "" /\ article.articleNumber # article_number)

\* lines 780-921: the sections of one accepted record, in order
ExtractSections(acc, article_id, article) ==
    LET eans == IF article.gtins # <<>> /\ ~ acc.ean_added
                THEN AddFirstEan(acc, article_id, article.gtins) ELSE acc
        trade == AddEach(eans, article_id, "TRADE", PlainNumbers(article.tradeNumbers))
        oe == AddEach(trade, article_id, "OE", ArticleNumbers(article.oemNumbers))
        comparable == AddEach(oe, article_id, "COMPARABLE",
                              ArticleNumbers(article.comparableNumbers))
        replacement == AddEach(comparable, article_id, "REPLACEMENT",
                               ArticleNumbers(article.replacesArticles))
    IN AddEach(replacement, article_id, "REPLACED",
               ArticleNumbers(article.replacedByArticles))

RECURSIVE ExtractArticles(_, _, _, _, _)
\* lines 766-921: the loop over the records
ExtractArticles(acc, article_id, articles, supplier_id, article_number) ==
    IF articles = <<>> THEN acc
    ELSE ExtractArticles(
            IF Accepted(Head(articles), supplier_id, article_number)
            THEN ExtractSections(acc, article_id, Head(articles)) ELSE acc,
            article_id, Tail(articles), supplier_id, article_number)

\* lines 730-924: the rows the call appends, in order; articles = <<>> for a response
\* that is empty or has no 'articles'
AllReferenceNumbers(refs, article_id, articles, supplier_id, article_number) ==
    ExtractArticles([rows |-> <<>>, existing_refs |-> ExistingRefs(refs, article_id),
                     ean_added |-> FALSE],
                    article_id, articles, supplier_id, article_number).rows

\* lines 1361-1383: one row per entry of oemNumbers
OeReferences(article_id, article) ==
    [i \in 1..Len(article.oemNumbers) |->
        LET ref == article.oemNumbers[i]
        IN IF ref.kind = "str"
           THEN ReferenceRow(article_id, "OE", ref.text, "")
           ELSE ReferenceRow(article_id, "OE",
                             GetText(ref.articleNumber, GetText(ref.number, <<>>)),
                             GetName(ref.mfrName, GetName(ref.brandName, "")))]

\* a key of a JSON object with its value
Pair(key, value) == [key |-> key, value |-> value]

\* an object of a gtin list with any keys: its pairs in the order of the JSON,
\* the values being strings and numbers
ObjEntry(fields) == [kind |-> "obj", fields |-> fields]

\* {'array': [...]} as the value of a key
ArrayValue(items) == [kind |-> "array", items |-> items]

\* dict.get(key) of a key that is absent
NoValue == [kind |-> "none"]

\* dict.get(key)
Get(fields, key) ==
    IF HasKey(fields, key)
    THEN fields[CHOOSE i \in 1..Len(fields) : fields[i].key = key].value
    ELSE NoValue

\* bool(x) of a JSON value
TruthyJson(v) ==
    CASE v.kind = "str" -> v.text # <<>>
      [] v.kind = "int" -> v.value # 0
      [] v.kind = "list" -> v.items # <<>>
      [] v.kind = "array" -> TRUE
      [] v.kind = "obj" -> v.fields # <<>>
      [] OTHER -> FALSE

\* lines 1009-1021: the field names an object of the gtin list is read through
GtinFields ==
    <<"gtin", "GTIN", "ean", "EAN", "gtinNumber", "gtinValue", "eanNumber",
      "number", "value", "gtinCode", "eanCode">>

RECURSIVE FirstTruthy(_, _)
\* ref.get(a) or ref.get(b) or ... or '': the first value that is truthy
FirstTruthy(fields, names) ==
    IF names = <<>> THEN NoValue
    ELSE IF TruthyJson(Get(fields, Head(names))) THEN Get(fields, Head(names))
    ELSE FirstTruthy(fields, Tail(names))

\* lines 1001-1023 and 661-683: the gtin an entry of the gtin list holds; an object
\* of the reference responses (kind "dict") is read through its 'number'
GtinNumber(ref) ==
    IF ref.kind = "dict"
    THEN IF GetText(ref.number, <<>>) # <<>> THEN Strip(ref.number) ELSE <<>>
    ELSE IF ref.kind = "obj"
    THEN LET gtin_number == FirstTruthy(ref.fields, GtinFields)
         IN IF gtin_number.kind = "none" THEN <<>> ELSE NumberText(gtin_number)
    ELSE NumberText(ref)

RECURSIVE NewGtins(_, _, _)
\* lines 999-1035: a row for every gtin that is not in existing_gtins
NewGtins(article_id, gtin_data, existing_gtins) ==
    IF gtin_data = <<>> THEN <<>>
    ELSE LET gtin_number == GtinNumber(Head(gtin_data))
         IN IF gtin_number # <<>> /\ gtin_number \notin existing_gtins
            THEN <<ReferenceRow(article_id, "EAN", gtin_number, "")>>
                 \o NewGtins(article_id, Tail(gtin_data),
                             existing_gtins \cup {gtin_number})
            ELSE NewGtins(article_id, Tail(gtin_data), existing_gtins)

\* key.lower(), for the keys of the inputs
Lower(key) ==
    CASE key \in {"gtins", "GTINS", "GTINs", "Gtins"} -> "gtins"
      [] key \in {"gtin", "GTIN"} -> "gtin"
      [] key \in {"ean", "EAN"} -> "ean"
      [] key \in {"eans", "EANs"} -> "eans"
      [] key = "gtinNumbers" -> "gtinnumbers"
      [] OTHER -> key

\* line 986: the alternative key names
AltKeys == <<"gtin", "GTIN", "gtinNumbers", "gtins", "ean", "EAN", "eans", "EANs">>

RECURSIVE FirstPresent(_, _)
\* lines 986-989: the first of the names that is a key of the article
FirstPresent(article, names) ==
    IF names = <<>> THEN NoKey
    ELSE IF HasKey(article, Head(names)) THEN Head(names)
    ELSE FirstPresent(article, Tail(names))

\* lines 974-989 (and 638-656): gtin_key; an article is the sequence of its pairs in
\* the order of article.keys()
GtinKey(article) ==
    LET swept == {i \in 1..Len(article) : Lower(article[i].key) = "gtins"}
    IN IF swept # {}
       THEN article[CHOOSE i \in swept : \A j \in swept : i <= j].key
       ELSE IF HasKey(article, "GTINs") THEN "GTINs"
       ELSE FirstPresent(article, AltKeys)

\* lines 991-997: gtin_data, nothing when no key is found or its value is falsy
GtinData(article) ==
    LET gtin_key == GtinKey(article)
    IN IF gtin_key # NoKey /\ TruthyJson(Get(article, gtin_key))
       THEN LET gtin_data == Get(article, gtin_key)
            IN IF gtin_data.kind = "array" THEN ListOf(gtin_data.items)
               ELSE gtin_data
       ELSE NoValue

\* lines 969-972
ExistingGtins(refs, article_id) ==
    {refs[i].number : i \in {j \in 1..Len(refs) :
                               /\ refs[j].article_id = article_id
                               /\ refs[j].ref_type = "EAN"}}

\* lines 967-1052: the rows extract_gtins_from_article appends for an article given
\* as its pairs
ExtractGtins(refs, article_id, article) ==
    LET gtin_data == GtinData(article)
        existing_gtins == ExistingGtins(refs, article_id)
    IN IF gtin_data.kind = "list"
       THEN NewGtins(article_id, gtin_data.items, existing_gtins)
       ELSE IF gtin_data.kind = "str"
       THEN LET gtin_number == Strip(gtin_data.text)
            IN IF gtin_number # <<>> /\ gtin_number \notin existing_gtins
               THEN <<ReferenceRow(article_id, "EAN", gtin_number, "")>>
               ELSE <<>>
       ELSE <<>>

\* lines 967-1052, for an article whose gtins are a list under 'gtins'
GtinReferences(refs, article_id, article) ==
    ExtractGtins(refs, article_id, <<Pair("gtins", ListOf(article.gtins))>>)

\* lines 685-693: the gtin is the target, leading zeros apart
IsTarget(gtin_number, target_gtin) ==
    \/ LStripZeros(gtin_number) = LStripZeros(target_gtin)
    \/ gtin_number = target_gtin
    \/ gtin_number = <<"0">> \o target_gtin
    \/ gtin_number = LStripZeros(target_gtin)

RECURSIVE SpecificGtin(_, _, _)
\* lines 657-709: a row for the first gtin that is the target
SpecificGtin(article_id, gtin_data, target_gtin) ==
    IF gtin_data = <<>> THEN <<>>
    ELSE LET gtin_number == GtinNumber(Head(gtin_data))
         IN IF gtin_number # <<>> /\ IsTarget(gtin_number, target_gtin)
            THEN <<ReferenceRow(article_id, "EAN", gtin_number, "")>>
            ELSE SpecificGtin(article_id, Tail(gtin_data), target_gtin)

\* reference numbers of the inputs
One == <<"1">>
TwoSp == <<" ", "2">>
Three == <<"3">>
ZeroOne == <<"0", "1">>
Blank == <<" ">>
NumA == <<"A">>
NumB == <<"B">>
NumT == <<"T">>
NumCSp == <<" ", "C">>

NoNumbers == <<>>

\* the article ids, the supplier ids (0: none given) and the article numbers ('':
\* none given) a call is made with
RefArticleIds == {11, 12}
SupplierIds == {0, 5}
RefArticleNumbers == {"", "A1"}

\* the records of a reference_response (get_all_reference_numbers, lines 137-172)
ReferenceArticles ==
    { [dataSupplierId |-> 5, articleNumber |-> "A1",
       gtins |-> <<StrEntry(Blank), StrEntry(One), StrEntry(TwoSp)>>,
       tradeNumbers |-> <<StrEntry(NumT), IntEntry(17)>>,
       oemNumbers |-> <<DictEntry(NumA, NoText, "X", NoKey),
                        DictEntry(NumA, NoText, "X", NoKey)>>,
       comparableNumbers |-> NoNumbers, replacesArticles |-> NoNumbers,
       replacedByArticles |-> NoNumbers],
      [dataSupplierId |-> 5, articleNumber |-> "A1",
       gtins |-> <<StrEntry(TwoSp)>>,
       tradeNumbers |-> NoNumbers,
       oemNumbers |-> <<DictEntry(NumA, NoText, "X", NoKey)>>,
       comparableNumbers |-> <<StrEntry(NumCSp), DictEntry(NumB, NoText, "Y", NoKey)>>,
       replacesArticles |-> <<DictEntry(NumA, NoText, "X", NoKey)>>,
       replacedByArticles |-> <<DictEntry(NoText, NumB, "Y", NoKey)>>],
      [dataSupplierId |-> 9, articleNumber |-> "A1",
       gtins |-> <<StrEntry(Three)>>,
       tradeNumbers |-> <<StrEntry(NumT)>>,
       oemNumbers |-> NoNumbers,
       comparableNumbers |-> NoNumbers, replacesArticles |-> NoNumbers,
       replacedByArticles |-> NoNumbers],
      [dataSupplierId |-> 5, articleNumber |-> "B2",
       gtins |-> <<IntEntry(3)>>,
       tradeNumbers |-> NoNumbers,
       oemNumbers |-> <<DictEntry(NumB, NoText, "Y", NoKey)>>,
       comparableNumbers |-> NoNumbers, replacesArticles |-> NoNumbers,
       replacedByArticles |-> NoNumbers] }

\* the article records of get_articles that the other extraction methods read
MainArticles ==
    { [oemNumbers |-> <<DictEntry(NumA, NoText, "X", NoKey),
                        DictEntry(NumA, NoText, "X", NoKey)>>,
       gtins |-> <<StrEntry(One), StrEntry(TwoSp)>>],
      [oemNumbers |-> <<StrEntry(NumA), DictEntry(NoText, NumB, NoKey, "Y")>>,
       gtins |-> <<StrEntry(ZeroOne), IntEntry(1)>>],
      [oemNumbers |-> NoNumbers,
       gtins |-> <<DictEntry(NoText, One, NoKey, NoKey)>>] }

TargetGtins == {One, ZeroOne}

\* the reference_responses: at most MaxArticles records, each listed once
ReferenceResponses ==
    {s \in SeqsUpTo(ReferenceArticles, MaxArticles) :
        \A i, j \in 1..Len(s) : s[i] = s[j] => i = j}

\* lines 730-924
ExtractAllReferenceNumbers ==
    /\ Len(references) < MaxRefs
    /\ \E article_id \in RefArticleIds, supplier_id \in SupplierIds,
          article_number \in RefArticleNumbers,
          articles \in ReferenceResponses :
          /\ references' = references
                \o AllReferenceNumbers(references, article_id, articles, supplier_id,
                                       article_number)
          /\ ref_call' = [op |-> "all", article_id |-> article_id,
                          articles |-> articles, supplier_id |-> supplier_id,
                          article_number |-> article_number, target_gtin |-> <<>>]
    /\ pre_references' = references
    /\ UNCHANGED <<enrich_vars, page_vars, export_vars, envelope_vars, format_vars, main_vars,
                   category_vars>>

\* lines 1353-1386
ExtractReferencesFromArticle ==
    /\ Len(references) < MaxRefs
    /\ \E article_id \in RefArticleIds, article \in MainArticles :
          /\ references' = references \o OeReferences(article_id, article)
          /\ ref_call' = [op |-> "oe", article_id |-> article_id,
                          articles |-> <<article>>, supplier_id |-> 0,
                          article_number |-> "", target_gtin |-> <<>>]
    /\ pre_references' = references
    /\ UNCHANGED <<enrich_vars, page_vars, export_vars, envelope_vars, format_vars, main_vars,
                   category_vars>>

\* lines 961-1052
ExtractGtinsFromArticle ==
    /\ Len(references) < MaxRefs
    /\ \E article_id \in RefArticleIds, article \in MainArticles :
          /\ references' = references \o GtinReferences(references, article_id, article)
          /\ ref_call' = [op |-> "gtins", article_id |-> article_id,
                          articles |-> <<article>>, supplier_id |-> 0,
                          article_number |-> "", target_gtin |-> <<>>]
    /\ pre_references' = references
    /\ UNCHANGED <<enrich_vars, page_vars, export_vars, envelope_vars, format_vars, main_vars,
                   category_vars>>

\* lines 624-728
ExtractSpecificGtin ==
    /\ Len(references) < MaxRefs
    /\ \E article_id \in RefArticleIds, article \in MainArticles,
          target_gtin \in TargetGtins :
          /\ references' = references
                \o SpecificGtin(article_id, article.gtins, target_gtin)
          /\ ref_call' = [op |-> "specific", article_id |-> article_id,
                          articles |-> <<article>>, supplier_id |-> 0,
                          article_number |-> "", target_gtin |-> target_gtin]
    /\ pre_references' = references
    /\ UNCHANGED <<enrich_vars, page_vars, export_vars, envelope_vars, format_vars, main_vars,
                   category_vars>>

\* the extraction methods in any order
NextRefs ==
    \/ ExtractAllReferenceNumbers
    \/ ExtractReferencesFromArticle
    \/ ExtractGtinsFromArticle
    \/ ExtractSpecificGtin

SpecRefs == Init /\ [][NextRefs]_vars

\* lines 609-622: the two extraction methods process_complete_article_data calls
NextArticleRefs ==
    \/ ExtractReferencesFromArticle
    \/ ExtractAllReferenceNumbers

SpecArticleRefs == Init /\ [][NextArticleRefs]_vars

-----------------------------------------------------------------------------
(* extract_gtins_from_article on articles that hold their gtins under any of  *)
(* the key names and in any of the value shapes                               *)

MaxKeys == 2        \* keys of one article

\* key names of the articles: two declared names, 'gtins' and a name that is
\* 'gtins' case apart
ArticleKeys == {"gtin", "EAN", "gtins", "GTINS"}

\* values of the keys: '', a string, a number, each of them in a list and in an
\* object of a list, and a list under 'array'
GtinValues ==
    {StrEntry(<<>>), StrEntry(One), IntEntry(7),
     ListOf(<<StrEntry(One)>>), ListOf(<<IntEntry(7)>>),
     ListOf(<<ObjEntry(<<Pair("gtin", StrEntry(One))>>)>>),
     ListOf(<<ObjEntry(<<Pair("ean", IntEntry(7))>>)>>),
     ListOf(<<ObjEntry(<<Pair("gtin", StrEntry(<<>>)), Pair("EAN", StrEntry(Three))>>)>>),
     ArrayValue(<<StrEntry(TwoSp)>>)}

\* the articles: at most MaxKeys pairs, no key twice
KeyedArticles ==
    {a \in SeqsUpTo({Pair(key, value) : key \in ArticleKeys, value \in GtinValues},
                    MaxKeys) :
        \A i, j \in 1..Len(a) : a[i].key = a[j].key => i = j}

\* lines 961-1052, as the first extraction call of a client
ExtractGtinsFromKeyedArticle ==
    /\ ref_call = NoRefCall
    /\ \E article_id \in RefArticleIds, article \in KeyedArticles :
          /\ references' = references \o ExtractGtins(references, article_id, article)
          /\ ref_call' = [op |-> "gtins", article_id |-> article_id,
                          articles |-> <<article>>, supplier_id |-> 0,
                          article_number |-> "", target_gtin |-> <<>>]
    /\ pre_references' = references
    /\ UNCHANGED <<enrich_vars, page_vars, export_vars, envelope_vars, format_vars, main_vars,
                   category_vars>>

NextGtins == ExtractGtinsFromKeyedArticle

SpecGtins == Init /\ [][NextGtins]_vars

-----------------------------------------------------------------------------
(* What the claims on csv_data['references'] speak of *)

\* the positions of the rows the last extraction call appended
AppendedAt == (Len(pre_references) + 1)..Len(references)

\* the positions of the EAN rows of an article
EanRows(refs, article_id) ==
    {i \in 1..Len(refs) : refs[i].article_id = article_id /\ refs[i].ref_type = "EAN"}

\* the last call was extract_all_reference_numbers
AllCalled == ref_call.op = "all"

\* the records of the last call that pass the two tests as the claims state them:
\* supplier id equal, article number equal
Belonging ==
    {i \in 1..Len(ref_call.articles) :
        /\ ref_call.articles[i].dataSupplierId = ref_call.supplier_id
        /\ ref_call.articles[i].articleNumber = ref_call.article_number}

\* the records of the last call that the call did not skip
NotSkipped ==
    {i \in 1..Len(ref_call.articles) :
        Accepted(ref_call.articles[i], ref_call.supplier_id, ref_call.article_number)}

\* the keys a list of (number, mfr_name) offers under a reference type
KeysOf(ref_type, found) ==
    {<<ref_type, found[i].number, found[i].mfr_name>> :
        i \in {j \in 1..Len(found) : found[j].number # <<>>}}

\* the keys a record offers
Offered(article) ==
    KeysOf("EAN", PlainNumbers(article.gtins))
    \cup KeysOf("TRADE", PlainNumbers(article.tradeNumbers))
    \cup KeysOf("OE", ArticleNumbers(article.oemNumbers))
    \cup KeysOf("COMPARABLE", ArticleNumbers(article.comparableNumbers))
    \cup KeysOf("REPLACEMENT", ArticleNumbers(article.replacesArticles))
    \cup KeysOf("REPLACED", ArticleNumbers(article.replacedByArticles))

RECURSIVE EanCandidates(_, _)
\* the non-empty EAN candidates of the records at the positions in keep, in input
\* order
EanCandidates(articles, keep) ==
    IF articles = <<>> THEN <<>>
    ELSE EanCandidates(SubSeq(articles, 1, Len(articles) - 1), keep)
         \o (IF Len(articles) \in keep
             THEN SelectSeq([i \in 1..Len(articles[Len(articles)].gtins) |->
                               NumberText(articles[Len(articles)].gtins[i])],
                            LAMBDA n : n # <<>>)
             ELSE <<>>)

-----------------------------------------------------------------------------
(* C14 *)

\* C14: after any sequence of extraction calls csv_data['references'] holds at most
\* one EAN row per article id, and an article's EAN row, once there, stays the one.
Cex_C14_OneEanPerArticle ==
    \A article_id \in RefArticleIds :
        /\ Cardinality(EanRows(references, article_id)) <= 1
        /\ EanRows(pre_references, article_id) # {} =>
              EanRows(references, article_id) = EanRows(pre_references, article_id)

-----------------------------------------------------------------------------
(* C15 *)

\* C15: a call of extract_all_reference_numbers appends at most one EAN row, and
\* the EAN row it appends is the first non-empty candidate, in input order, of the
\* records it accepts.
Cex_C15_FirstEanOnly ==
    AllCalled =>
        LET eans == {i \in AppendedAt : references[i].ref_type = "EAN"}
            candidates == EanCandidates(ref_call.articles, NotSkipped)
        IN /\ Cardinality(eans) <= 1
           /\ \A i \in eans :
                 candidates # <<>> /\ references[i].number = candidates[1]

-----------------------------------------------------------------------------
(* C16 *)

\* C16: at every point of a run of extract_references_from_article and
\* extract_all_reference_numbers calls no two rows of csv_data['references'] have
\* the same (article_id, ref_type, number, mfr_name).
Cex_C16_NoDuplicateRows ==
    \A i, j \in 1..Len(references) : references[i] = references[j] => i = j

-----------------------------------------------------------------------------
(* C17 *)

\* C17: a call of extract_all_reference_numbers leaves the rows that were there
\* unchanged and in place, and every row it appends is a row of the article whose
\* (ref_type, number, mfr_name) is neither that of a row the article had before the
\* call nor that of a row appended earlier in the call.
Thm_C17_NoDuplicateAppended ==
    AllCalled =>
        /\ SubSeq(references, 1, Len(pre_references)) = pre_references
        /\ \A i \in AppendedAt :
              /\ references[i].article_id = ref_call.article_id
              /\ RefKey(references[i])
                    \notin ExistingRefs(pre_references, ref_call.article_id)
              /\ \A j \in AppendedAt :
                    RefKey(references[i]) = RefKey(references[j]) => i = j

\* a call that appended rows, among them one for a number it was offered twice,
\* while another number it was offered was a row of the article before the call and
\* a row of the same key stood there for another article
Wit_C17_NoDuplicateAppended ==
    /\ AllCalled
    /\ \E i \in NotSkipped :
          /\ ref_call.articles[i].oemNumbers # <<>>
          /\ Len(ref_call.articles[i].oemNumbers) = 2
          /\ ref_call.articles[i].oemNumbers[1] = ref_call.articles[i].oemNumbers[2]
          /\ Cardinality({n \in AppendedAt :
                RefKey(references[n])
                   \in KeysOf("OE", ArticleNumbers(ref_call.articles[i].oemNumbers))})
             = 1
          /\ Offered(ref_call.articles[i])
                \cap ExistingRefs(pre_references, ref_call.article_id) # {}
    /\ Len(pre_references) > 0

-----------------------------------------------------------------------------
(* C18 *)

\* C18: every row a call of extract_all_reference_numbers appends is offered by a
\* record of the response whose dataSupplierId is the supplier id of the call and
\* whose articleNumber is the article number of the call, whatever the two are.
Cex_C18_FilterFirst ==
    AllCalled =>
        \A n \in AppendedAt :
            \E i \in Belonging : RefKey(references[n]) \in Offered(ref_call.articles[i])

-----------------------------------------------------------------------------
(* export_vehicles_csv: the deduplication before the file is written *)

MaxRows == 3        \* rows of csv_data['vehicles'] at export

\* UniqueKey with kba_numbers among the key fields
UniqueKey_WithKba(vehicle) ==
    <<vehicle.article_id, vehicle.vehicle_mfr_name, vehicle.model_series_name,
      vehicle.type_name, vehicle.year_from, vehicle.year_to, vehicle.engine_cc,
      vehicle.power_hp, vehicle.fuel_type, vehicle.body_style, vehicle.drive_type,
      vehicle.kba_numbers, vehicle.engine_code>>

\* lines 2013-2026
UniqueKey(vehicle) ==
    <<vehicle.article_id, vehicle.vehicle_mfr_name, vehicle.model_series_name,
      vehicle.type_name, vehicle.year_from, vehicle.year_to, vehicle.engine_cc,
      vehicle.power_hp, vehicle.fuel_type, vehicle.body_style, vehicle.drive_type,
      vehicle.engine_code>>

RECURSIVE Deduplicate(_, _, _)
\* lines 2008-2031: the loop over data, seen_vehicles and deduplicated_data in hand
Deduplicate(data, seen_vehicles, deduplicated_data) ==
    IF data = <<>> THEN deduplicated_data
    ELSE IF UniqueKey(Head(data)) \notin seen_vehicles
         THEN Deduplicate(Tail(data), seen_vehicles \cup {UniqueKey(Head(data))},
                          Append(deduplicated_data, Head(data)))
         ELSE Deduplicate(Tail(data), seen_vehicles, deduplicated_data)

\* lines 1991-1995 and 2041: the 14 columns of the file, in order
Reindex(vehicle) ==
    [article_id |-> vehicle.article_id,
     vehicle_mfr_name |-> vehicle.vehicle_mfr_name,
     model_series_name |-> vehicle.model_series_name,
     type_name |-> vehicle.type_name,
     year_from |-> vehicle.year_from,
     year_to |-> vehicle.year_to,
     engine_cc |-> vehicle.engine_cc,
     power_hp |-> vehicle.power_hp,
     fuel_type |-> vehicle.fuel_type,
     body_style |-> vehicle.body_style,
     drive_type |-> vehicle.drive_type,
     kba_numbers |-> vehicle.kba_numbers,
     engine_code |-> vehicle.engine_code,
     other_restrictions |-> vehicle.other_restrictions]

\* lines 1997-2046: the rows written to the file
ExportedRows(data) ==
    LET deduplicated_data == Deduplicate(data, {}, <<>>)
    IN [i \in 1..Len(deduplicated_data) |-> Reindex(deduplicated_data[i])]

\* a row of csv_data['vehicles'] as the enrichment leaves it
EnrichedRow ==
    EnrichRow(VehicleRow(11, CHOOSE v \in VehiclePool : v.linkingTargetId = 103),
              CHOOSE d \in DetailPool : d.linkageTargetId = 101)

\* the rows csv_data['vehicles'] holds at export: the enriched row, the same with
\* other registration numbers, with other restrictions, with another fuel and for
\* another article
ExportRows ==
    { EnrichedRow,
      [EnrichedRow EXCEPT !.kba_numbers = "2003"],
      [EnrichedRow EXCEPT !.other_restrictions = "LHD"],
      [EnrichedRow EXCEPT !.fuel_type = "LPG"],
      [EnrichedRow EXCEPT !.article_id = 12, !.kba_numbers = ""] }

\* lines 1984-2050; no file is written for an empty list (lines 1999-2001)
ExportVehiclesCsv ==
    /\ csv_vehicles # <<>>
    /\ exported' = [written |-> TRUE, rows |-> ExportedRows(csv_vehicles)]
    /\ UNCHANGED <<enrich_vars, page_vars, refs_vars, envelope_vars, format_vars, main_vars,
                   category_vars>>

\* the client at the end of main's loop, csv_data['vehicles'] filled
InitExport ==
    /\ csv_vehicles \in SeqsUpTo(ExportRows, MaxRows)
    /\ vehicle_lookup = <<>>
    /\ linkage_targets_response = <<>>
    /\ route = "none"
    /\ pre_vehicles = <<>>
    /\ pre_lookup = <<>>
    /\ enrich_log = <<>>
    /\ InitPage
    /\ InitRefs
    /\ exported = NotExported
    /\ envelope = NoEnvelope
    /\ normalized = NotNormalized
    /\ InitOther

NextExport == ExportVehiclesCsv

SpecExport == InitExport /\ [][NextExport]_vars

-----------------------------------------------------------------------------
(* C19 *)

\* the natural key of a vehicle row
NaturalKey(row) ==
    <<row.article_id, row.vehicle_mfr_name, row.model_series_name, row.type_name,
      row.year_from, row.year_to, row.engine_cc, row.power_hp, row.fuel_type,
      row.body_style, row.drive_type, row.engine_code>>

\* the positions of csv_data['vehicles'] that hold the first row of their key
FirstOfKey ==
    {i \in 1..Len(csv_vehicles) :
        \A j \in 1..(i - 1) : NaturalKey(csv_vehicles[j]) # NaturalKey(csv_vehicles[i])}

\* the n-th of them
NthFirstOfKey(n) ==
    CHOOSE i \in FirstOfKey : Cardinality({j \in FirstOfKey : j < i}) = n - 1

\* C19: the exported rows are, in input order, exactly the first row of each natural
\* key of csv_data['vehicles'], each as it stood in the input.
Thm_C19_DedupeFirstWins ==
    exported.written =>
        /\ Len(exported.rows) = Cardinality(FirstOfKey)
        /\ \A n \in 1..Len(exported.rows) :
              exported.rows[n] = csv_vehicles[NthFirstOfKey(n)]

\* rows that differ only in kba_numbers or only in other_restrictions collapse to
\* the first, which keeps its kba_numbers, and a row of another key after them stays
Wit_C19_DedupeFirstWins ==
    /\ exported.written
    /\ Len(csv_vehicles) = 3
    /\ Len(exported.rows) = 2
    /\ NaturalKey(csv_vehicles[2]) = NaturalKey(csv_vehicles[1])
    /\ csv_vehicles[2].kba_numbers # csv_vehicles[1].kba_numbers
    /\ exported.rows[1] = csv_vehicles[1]
    /\ exported.rows[2] = csv_vehicles[3]

-----------------------------------------------------------------------------
(* The response envelopes of process_vehicle_linkages, process_attributes_data *)
(* and process_references_data.  A JSON value is a list, [kind, items], or an  *)
(* object, [kind, array, data]: array is [has, null, items], null telling a    *)
(* JSON null from a list, data a JSON value, a null, a number or                *)
(* [kind |-> "absent"].                                                        *)

MaxItems == 2       \* records in one envelope

NoData == [kind |-> "absent"]

NoArray == [has |-> FALSE, null |-> FALSE, items |-> <<>>]

ArrayOf(items) == [has |-> TRUE, null |-> FALSE, items |-> items]

\* 'array': null
NullArray == [has |-> TRUE, null |-> TRUE, items |-> <<>>]

\* 'data': null
NullData == [kind |-> "null"]

\* 'data': 5
NumberData == [kind |-> "number"]

\* x is a list or an object, so that 'array' in x is evaluated; it raises
\* TypeError for None and for a number
IsContainer(json) == json.kind \in {"list", "dict"}

\* a JSON object with the keys 'array' and 'data', either of which may be absent
DictOf(array, data) == [kind |-> "dict", array |-> array, data |-> data]

\* bool(x) of a JSON list or object
NonEmpty(json) ==
    IF json.kind = "list" THEN json.items # <<>>
    ELSE json.array.has \/ json.data.kind # "absent"

\* 'array' in x: a key of the object; no item of a list of records is 'array'
HasArray(json) == json.kind = "dict" /\ json.array.has

\* 'data' in x
HasData(json) == json.kind = "dict" /\ json.data.kind # "absent"

Raised == [raised |-> TRUE, records |-> <<>>]

Records(items) == [raised |-> FALSE, records |-> items]

\* lines 1566-1581: linkages_data, the records process_vehicle_linkages goes on
\* with; nothing for a response it returns on.  Line 1580 returns on a
\* linkages_data that is None.
LinkagesData(linkages_response) ==
    IF ~ NonEmpty(linkages_response) THEN Records(<<>>)
    ELSE IF HasArray(linkages_response)
         THEN IF linkages_response.array.null
              THEN Records(<<>>)
              ELSE Records(linkages_response.array.items)
    ELSE IF HasData(linkages_response)
         THEN IF ~ IsContainer(linkages_response.data) THEN Raised
              ELSE IF HasArray(linkages_response.data)
                   THEN IF linkages_response.data.array.null
                        THEN Records(<<>>)
                        ELSE Records(linkages_response.data.array.items)
              ELSE IF linkages_response.data.kind = "list"
                   THEN Records(linkages_response.data.items)
                   ELSE Records(<<>>)
    ELSE Records(<<>>)

\* lines 1304-1334 (and 1390-1420, the same statements): attributes_data, the
\* records the loop of line 1336 appends a row for.  Line 1304 formats
\* attributes_response.keys() for every response that is not empty, which raises
\* AttributeError for a list; lines 1316 and 1322 format len(attributes_data),
\* which raises TypeError for None.
AttributesData(attributes_response) ==
    IF NonEmpty(attributes_response) /\ attributes_response.kind = "list" THEN Raised
    ELSE IF ~ NonEmpty(attributes_response) THEN Records(<<>>)
    ELSE IF HasArray(attributes_response)
         THEN IF attributes_response.array.null
              THEN Raised
              ELSE Records(attributes_response.array.items)
    ELSE IF HasData(attributes_response)
         THEN IF ~ IsContainer(attributes_response.data) THEN Raised
              ELSE IF HasArray(attributes_response.data)
                   THEN IF attributes_response.data.array.null
                        THEN Raised
                        ELSE Records(attributes_response.data.array.items)
              ELSE IF attributes_response.data.kind = "list"
                   THEN Records(attributes_response.data.items)
                   ELSE Records(<<>>)
    ELSE IF attributes_response.kind = "list"
         THEN Records(attributes_response.items)
    ELSE Records(<<>>)

\* lines 1390-1420
ReferencesData(references_response) == AttributesData(references_response)

\* the records of the envelopes
ItemPool == {"r1", "r2", "r3"}

\* the four envelope shapes around a content
DirectList(items) == ListOf(items)
DirectArray(items) == DictOf(ArrayOf(items), NoData)
DataArray(items) == DictOf(NoArray, DictOf(ArrayOf(items), NoData))
DataList(items) == DictOf(NoArray, ListOf(items))

Envelopes ==
    UNION {{DirectList(items), DirectArray(items), DataArray(items), DataList(items)} :
              items \in SeqsUpTo(ItemPool, MaxItems)}

\* responses of other shapes: 'array' or 'data' null, 'data' a number, both
\* keys present, an object without either key
OddEnvelopes ==
    UNION {{DictOf(NullArray, ListOf(items)),
            DictOf(ArrayOf(items), ListOf(<<"r3">>)),
            DictOf(NoArray, DictOf(NullArray, ListOf(items)))} :
              items \in SeqsUpTo(ItemPool, 1)}
    \cup {DictOf(NullArray, NoData), DictOf(NoArray, NullData),
          DictOf(NoArray, NumberData), DictOf(NoArray, DictOf(NoArray, NoData)),
          DictOf(NoArray, NoData)}

\* the three methods handed the envelope
ProcessEnvelope ==
    /\ ~ normalized.done
    /\ normalized' = [done |-> TRUE,
                      vehicles |-> LinkagesData(envelope),
                      attributes |-> AttributesData(envelope),
                      references |-> ReferencesData(envelope)]
    /\ UNCHANGED <<envelope, enrich_vars, page_vars, refs_vars, export_vars, format_vars, main_vars,
                   category_vars>>

\* a fresh client and a response of one of the four shapes
InitEnvelope ==
    /\ InitEnrich
    /\ InitPage
    /\ InitRefs
    /\ exported = NotExported
    /\ envelope \in Envelopes \cup OddEnvelopes
    /\ normalized = NotNormalized
    /\ InitOther

NextEnvelope == ProcessEnvelope

SpecEnvelope == InitEnvelope /\ [][NextEnvelope]_vars

-----------------------------------------------------------------------------
(* C20 *)

\* the content of an envelope of one of the four shapes
Content(json) ==
    IF json.kind = "list" THEN json.items
    ELSE IF json.array.has THEN json.array.items
    ELSE IF json.data.kind = "list" THEN json.data.items
    ELSE json.data.array.items

\* C20: for each of the four envelope shapes each of the three methods yields the
\* content of the envelope as its record sequence, and raises nothing.
Cex_C20_EnvelopeShapes ==
    normalized.done /\ envelope \in Envelopes =>
        /\ normalized.vehicles = Records(Content(envelope))
        /\ normalized.attributes = Records(Content(envelope))
        /\ normalized.references = Records(Content(envelope))

-----------------------------------------------------------------------------
(* _format_year_month on its own *)

MaxDate == 7        \* characters of a date

\* the characters of the dates: a digit, the hyphen and a letter
DateChars == {"1", "-", "x"}

\* lines 1528-1553, called on a date and on what it returned for it
FormatDate ==
    /\ ~ formatted.done
    /\ formatted' = [done |-> TRUE,
                     once |-> FormatYearMonth(given_date),
                     twice |-> FormatYearMonth(FormatYearMonth(given_date))]
    /\ UNCHANGED <<given_date, enrich_vars, page_vars, refs_vars, export_vars,
                   envelope_vars, main_vars, category_vars>>

\* a fresh client and a date of at most MaxDate characters
InitFormat ==
    /\ InitEnrich
    /\ InitPage
    /\ InitRefs
    /\ exported = NotExported
    /\ envelope = NoEnvelope
    /\ normalized = NotNormalized
    /\ given_date \in SeqsUpTo(DateChars, MaxDate)
    /\ formatted = NotFormatted
    /\ pc = AtStart
    /\ upstreams = NoUpstreams
    /\ facets = <<>>
    /\ hierarchy = NoHierarchy

NextFormat == FormatDate

SpecFormat == InitFormat /\ [][NextFormat]_vars

-----------------------------------------------------------------------------
(* C25 *)

\* the text is YYYY-MM
IsYearMonth(text) ==
    /\ Len(text) = 7
    /\ IsDigit(SubSeq(text, 1, 4))
    /\ text[5] = "-"
    /\ IsDigit(SubSeq(text, 6, 7))

\* C25: six digits give the first four, a hyphen and the last two; four digits
\* give themselves and "-01"; a YYYY-MM text gives itself; the empty text gives
\* the empty text; formatting the result again gives the result.
Thm_C25_YearMonth ==
    formatted.done =>
        /\ Len(given_date) = 6 /\ IsDigit(given_date) =>
              formatted.once = SubSeq(given_date, 1, 4) \o <<"-">>
                                  \o SubSeq(given_date, 5, 6)
        /\ Len(given_date) = 4 /\ IsDigit(given_date) =>
              formatted.once = given_date \o <<"-", "0", "1">>
        /\ IsYearMonth(given_date) => formatted.once = given_date
        /\ given_date = <<>> => formatted.once = <<>>
        /\ formatted.twice = formatted.once

\* a bare year has been formatted
Wit_C25_YearMonth ==
    formatted.done /\ Len(given_date) = 4 /\ IsDigit(given_date)

-----------------------------------------------------------------------------
(* _build_category_hierarchy_from_facets.  A node of 'counts' is [id, parent]:  *)
(* its assemblyGroupNodeId and its parentNodeId, Missing for a key that is       *)
(* absent or null (dict.get then yields None for both).                         *)

MaxNodes == 3       \* nodes of one 'counts'

NodeIds == {Missing, 1, 2}

\* the nodes of the facets
NodePool == {[id |-> id, parent |-> parent] : id \in NodeIds, parent \in NodeIds}

\* lines 499-503 and 517-525: the first node of counts that passes the test
FirstNode(counts, Test(_)) ==
    LET hits == {i \in 1..Len(counts) : Test(counts[i])}
    IN IF hits = {} THEN 0 ELSE CHOOSE i \in hits : \A j \in hits : i <= j

\* line 500: the node has no parentNodeId, or a null one
IsRoot(node) == node.parent = Missing

\* lines 482-513: the call up to the while loop; it returns at once for no counts
\* and for counts without a root node
BuildCategoryHierarchy ==
    /\ hierarchy.at = "idle"
    /\ LET root == FirstNode(facets, IsRoot)
       IN hierarchy' =
             IF facets = <<>> \/ root = 0
             THEN [at |-> "returned", current_id |-> 0, node_ids |-> <<>>]
             ELSE [at |-> "loop", current_id |-> facets[root].id,
                   node_ids |-> <<facets[root].id>>]
    /\ UNCHANGED <<facets, enrich_vars, page_vars, refs_vars, export_vars,
                   envelope_vars, format_vars, main_vars>>

\* lines 515-526: one pass of the while True loop: the first node whose
\* parentNodeId is current_id is followed, and the loop is left when there is
\* none.  The passes are followed until node_ids holds more entries than a
\* 'counts' has nodes.
FollowChild ==
    /\ hierarchy.at = "loop"
    /\ Len(hierarchy.node_ids) <= MaxNodes
    /\ LET IsChild(node) == node.parent = hierarchy.current_id
           child == FirstNode(facets, IsChild)
       IN hierarchy' =
             IF child = 0
             THEN [hierarchy EXCEPT !.at = "returned"]
             ELSE [at |-> "loop", current_id |-> facets[child].id,
                   node_ids |-> Append(hierarchy.node_ids, facets[child].id)]
    /\ UNCHANGED <<facets, enrich_vars, page_vars, refs_vars, export_vars,
                   envelope_vars, format_vars, main_vars>>

\* a fresh client and the counts of an assemblyGroupFacets
InitCategory ==
    /\ InitEnrich
    /\ InitPage
    /\ InitRefs
    /\ exported = NotExported
    /\ envelope = NoEnvelope
    /\ normalized = NotNormalized
    /\ given_date = <<>>
    /\ formatted = NotFormatted
    /\ pc = AtStart
    /\ upstreams = NoUpstreams
    /\ facets \in SeqsUpTo(NodePool, MaxNodes)
    /\ hierarchy = NoHierarchy

NextCategory ==
    \/ BuildCategoryHierarchy
    \/ FollowChild

SpecCategory == InitCategory /\ [][NextCategory]_vars

-----------------------------------------------------------------------------
(* C30 *)

\* C30: the call returns for every facet list.  A node that is followed fixes
\* current_id and with it every later pass, so the loop ends exactly when no node
\* is followed twice and the root is not followed: node_ids, which holds the root
\* and one entry per pass, never holds more entries than counts has nodes.
Cex_C30_Terminates == Len(hierarchy.node_ids) <= Len(facets)

-----------------------------------------------------------------------------
(* C21 *)

\* the list of the first form, in the order direct list, array, data.array,
\* data, that is a list; no record when none is
FirstList(json) ==
    IF json.kind = "list" THEN json.items
    ELSE IF json.array.has /\ ~ json.array.null THEN json.array.items
    ELSE IF json.data.kind = "dict" /\ json.data.array.has /\ ~ json.data.array.null
         THEN json.data.array.items
    ELSE IF json.data.kind = "list" THEN json.data.items
    ELSE <<>>

\* C21: for a response that is an object, each of the three methods yields the
\* list of the first form that is a list, passing over a form whose key holds
\* no list, and yields no record, raising nothing, when no form is a list.
Cex_C21_FirstFormThatYieldsList ==
    normalized.done /\ envelope.kind = "dict" =>
        /\ normalized.vehicles = Records(FirstList(envelope))
        /\ normalized.attributes = Records(FirstList(envelope))
        /\ normalized.references = Records(FirstList(envelope))

-----------------------------------------------------------------------------
(* C22, C23, C24 *)

\* the article extract_gtins_from_article was called with
CalledArticle == ref_call.articles[1]

\* the place of a declared alias in the declared order
AliasIndex(key) == CHOOSE i \in 1..Len(AltKeys) : AltKeys[i] = key

IsAlias(key) == \E i \in 1..Len(AltKeys) : AltKeys[i] = key

\* the pairs of declared aliases that hold a non-empty value
NonEmptyAliases(article) ==
    {i \in 1..Len(article) : IsAlias(article[i].key) /\ TruthyJson(article[i].value)}

\* the pair of the first declared alias that holds a non-empty value
FirstNonEmptyAlias(article) ==
    article[CHOOSE i \in NonEmptyAliases(article) :
                \A j \in NonEmptyAliases(article) :
                    AliasIndex(article[i].key) <= AliasIndex(article[j].key)]

\* an earlier declared alias is present with an empty value
EarlierAliasEmpty(article) ==
    /\ \A i \in 1..Len(article) : IsAlias(article[i].key)
    /\ NonEmptyAliases(article) # {}
    /\ \E i \in 1..Len(article) :
          /\ ~ TruthyJson(article[i].value)
          /\ AliasIndex(article[i].key) < AliasIndex(FirstNonEmptyAlias(article).key)

\* C22: when the keys of the article are declared aliases and an earlier alias is
\* present with an empty value, the rows appended are those of the first alias
\* that holds a non-empty value.
Cex_C22_FirstNonEmptyAlias ==
    ref_call.op = "gtins" /\ EarlierAliasEmpty(CalledArticle) =>
        references = pre_references
            \o ExtractGtins(pre_references, ref_call.article_id,
                            <<FirstNonEmptyAlias(CalledArticle)>>)

\* a declared alias is a key of the article with a non-empty value, next to a key
\* that is no declared alias but one case apart
ExactNextToSwept(article) ==
    /\ NonEmptyAliases(article) # {}
    /\ \E i \in 1..Len(article) :
          /\ ~ IsAlias(article[i].key)
          /\ \E k \in 1..Len(AltKeys) : Lower(article[i].key) = Lower(AltKeys[k])

\* C23: an article that holds a declared alias exactly, with a non-empty value, is
\* resolved through it although another key matches an alias case apart: the rows
\* appended are those of the first declared alias that holds a non-empty value.
Cex_C23_ExactAliasFirst ==
    ref_call.op = "gtins" /\ ExactNextToSwept(CalledArticle) =>
        references = pre_references
            \o ExtractGtins(pre_references, ref_call.article_id,
                            <<FirstNonEmptyAlias(CalledArticle)>>)

\* the value is a string or a number
IsScalar(value) == value.kind \in {"str", "int"}

\* the value is one string or number v: v, [v] or [{name: v}]
IsShapeOfOne(value) ==
    \/ IsScalar(value)
    \/ /\ value.kind = "list"
       /\ Len(value.items) = 1
       /\ \/ IsScalar(value.items[1])
          \/ /\ value.items[1].kind = "obj"
             /\ Len(value.items[1].fields) = 1
             /\ IsScalar(value.items[1].fields[1].value)

\* the v of a value that is v, [v] or [{name: v}]
ScalarOf(value) ==
    IF IsScalar(value) THEN value
    ELSE IF IsScalar(value.items[1]) THEN value.items[1]
    ELSE value.items[1].fields[1].value

\* C24: for an article whose one key holds a string or a number v that is not
\* blank, as v, as [v] or as [{name: v}], the one row appended is the row
\* appended for [v].
Cex_C24_ShapesUniform ==
    /\ ref_call.op = "gtins"
    /\ Len(CalledArticle) = 1
    /\ IsShapeOfOne(CalledArticle[1].value)
    /\ NumberText(ScalarOf(CalledArticle[1].value)) # <<>>
    => /\ Len(references) = Len(pre_references) + 1
       /\ references = pre_references
            \o ExtractGtins(pre_references, ref_call.article_id,
                            <<Pair(CalledArticle[1].key,
                                   ListOf(<<ScalarOf(CalledArticle[1].value)>>))>>)

-----------------------------------------------------------------------------
(* C26, C27, C29: stated on the last enrichment call of main *)

\* the last step of the index was an enrichment call
Enriched == pre_lookup # <<>>

\* C26: the index is empty whenever a vehicle type begins and when the exports
\* start, and an enrichment call leaves it empty with one row in
\* csv_data['vehicles'] for every source record it held.
Thm_C26_IndexHandoff ==
    /\ pc.at \in {"type", "export"} => vehicle_lookup = <<>>
    /\ Enriched =>
          /\ vehicle_lookup = <<>>
          /\ Len(csv_vehicles) = Len(pre_vehicles) + CountSources(pre_lookup)
          /\ \A i \in 1..Len(Flatten(pre_lookup)) :
                csv_vehicles[Len(pre_vehicles) + i].article_id
                   = Flatten(pre_lookup)[i].info.row.article_id

\* the exports start after a second vehicle type whose index was enriched
Wit_C26_IndexHandoff ==
    /\ pc.at = "export"
    /\ Enriched
    /\ pre_vehicles # <<>>
    /\ vehicle_lookup = <<>>
    /\ Len(csv_vehicles) = Len(pre_vehicles) + CountSources(pre_lookup)

\* the first answer of an upstream holds no record: the request failed or the
\* page is empty
NoAnswer(srv) == Fetch(srv, 1).linkageTargets = <<>>

\* C27: when the query by ids and the query by manufacturer both fail or answer
\* without records, the call returns, leaving the index empty and the row of
\* every source record, as it was indexed, appended to csv_data['vehicles'].
Thm_C27_FailureNotFatal ==
    (Enriched /\ route = "mfr" /\ NoAnswer(upstreams.ids) /\ NoAnswer(upstreams.mfr)) =>
        /\ vehicle_lookup = <<>>
        /\ csv_vehicles = pre_vehicles \o Rows(EmitAsIs(pre_lookup))

\* both requests failed and the source records were emitted
Wit_C27_FailureNotFatal ==
    /\ Enriched
    /\ route = "mfr"
    /\ ~ Fetch(upstreams.ids, 1).ok
    /\ ~ Fetch(upstreams.mfr, 1).ok
    /\ csv_vehicles = pre_vehicles \o Rows(EmitAsIs(pre_lookup))

\* the upstream that supplied the detail records
Supplier == IF route = "ids" THEN upstreams.ids ELSE upstreams.mfr

RECURSIVE RecordsOfPages(_, _)
\* the records of pages 1..k of an upstream, page after page
RecordsOfPages(srv, k) ==
    IF k = 0 THEN <<>>
    ELSE RecordsOfPages(srv, k - 1) \o Fetch(srv, k).linkageTargets

\* the first answer declares a total above its record count, and pages 2..k, none
\* of them failed or empty, hold the records up to the total
PagesToFetch(srv, k) ==
    /\ Fetch(srv, 1).ok
    /\ srv.total # Missing
    /\ Len(Fetch(srv, 1).linkageTargets) < srv.total
    /\ k \in 2..Len(srv.pages)
    /\ \A p \in 2..k : Fetch(srv, p).ok /\ Fetch(srv, p).linkageTargets # <<>>
    /\ Len(RecordsOfPages(srv, k - 1)) < srv.total
    /\ Len(RecordsOfPages(srv, k)) >= srv.total

\* C29: when the answer that supplies the detail records declares a total above
\* its record count and the pages up to the total neither fail nor are empty, the
\* records correlated are those of all these pages, whichever query supplied them.
Cex_C29_FullyPaginated ==
    (Enriched /\ route # "none") =>
        \A k \in 2..Len(Supplier.pages) :
            PagesToFetch(Supplier, k) =>
                linkage_targets_response = RecordsOfPages(Supplier, k)

====
